---- MODULE Spec2Model ----
(***************************************************************************)
(* A model of the packet codec of korangar's ragnarok_networking crate:    *)
(* the byte stream, the hand-written FromBytes / ToBytes implementations   *)
(* (ItemIndex, WorldPosition, WorldPosition2, StatusType), the enum tag    *)
(* tables, the packet declarations and the packet envelope.                *)
(***************************************************************************)
EXTENDS Integers, Sequences, FiniteSets, TLC

VARIABLES
    build,      \* "debug" (overflow checks on) or "release" (integers wrap)
    data,       \* the bytes of the stream, or the bytes an encoder produced
    offset,     \* the stream's read offset
    pc,         \* the position of the operation in progress
    packet,     \* the type being decoded or encoded
    value,      \* the logical value handed to an encoder
    result      \* the ConversionResult of the last operation

vars == <<build, data, offset, pc, packet, value, result>>

(***************************************************************************)
(* Rust integer arithmetic.                                                *)
(***************************************************************************)
Builds == {"debug", "release"}

U16 == 0..65535

RECURSIVE BitOr(_, _)
BitOr(a, b) ==
    IF a = 0 THEN b
    ELSE IF b = 0 THEN a
    ELSE (IF (a % 2 = 1) \/ (b % 2 = 1) THEN 1 ELSE 0) + 2 * BitOr(a \div 2, b \div 2)

RECURSIVE BitAnd(_, _)
BitAnd(a, b) ==
    IF a = 0 \/ b = 0 THEN 0
    ELSE (IF (a % 2 = 1) /\ (b % 2 = 1) THEN 1 ELSE 0) + 2 * BitAnd(a \div 2, b \div 2)

RECURSIVE Pow2(_)
Pow2(n) == IF n = 0 THEN 1 ELSE 2 * Pow2(n - 1)

\* a >> n
Shr(a, n) == a \div Pow2(n)

\* a << n on an 8-bit operand: the bits shifted out are lost
Shl8(a, n) == (a * Pow2(n)) % 256

\* a << n on a usize operand (64 bits; the operands here stay far below)
ShlUsize(a, n) == a * Pow2(n)

\* value as u8
AsU8(a) == a % 256

(***************************************************************************)
(* ConversionResult.                                                       *)
(***************************************************************************)
Ok(v, o) == [kind |-> "Ok", value |-> v, error |-> "none", offset |-> o]

Err(e, o) == [kind |-> "Err", value |-> <<>>, error |-> e, offset |-> o]

Panic(e, o) == [kind |-> "Panic", value |-> <<>>, error |-> e, offset |-> o]

NoResult == [kind |-> "None", value |-> <<>>, error |-> "none", offset |-> 0]

\* a - b on u16: panics with overflow checks, wraps without
SubU16(a, b, bld) ==
    IF a >= b THEN Ok(a - b, 0)
    ELSE IF bld = "debug" THEN Panic("attempt to subtract with overflow", 0)
    ELSE Ok(a - b + 65536, 0)

\* a + b on u16: panics with overflow checks, wraps without
AddU16(a, b, bld) ==
    IF a + b <= 65535 THEN Ok(a + b, 0)
    ELSE IF bld = "debug" THEN Panic("attempt to add with overflow", 0)
    ELSE Ok((a + b) % 65536, 0)

(***************************************************************************)
(* ByteStream and the primitive codecs of ragnarok_bytes.                  *)
(***************************************************************************)
\* ByteStream::slice: the next n bytes, the offset advanced by n
slice(d, o, n) ==
    IF o + n <= Len(d) THEN Ok(SubSeq(d, o + 1, o + n), o + n)
    ELSE Err("OutOfBounds", o)

\* integers are little endian
RECURSIVE FromLE(_)
FromLE(bs) == IF bs = <<>> THEN 0 ELSE Head(bs) + 256 * FromLE(Tail(bs))

RECURSIVE ToLE(_, _)
ToLE(v, n) == IF n = 0 THEN <<>> ELSE <<v % 256>> \o ToLE(v \div 256, n - 1)

\* the bytes not read yet
remaining_len(d, o) == Len(d) - o

uint_from_bytes(d, o, n) ==
    LET s == slice(d, o, n)
    IN  IF s.kind = "Ok" THEN Ok(FromLE(s.value), s.offset) ELSE s

u16_from_bytes(d, o) == uint_from_bytes(d, o, 2)

u16_to_bytes(v) == Ok(ToLE(v, 2), 0)

(***************************************************************************)
(* ItemIndex: the wire value is the index plus 2.                          *)
(***************************************************************************)
ItemIndex_from_bytes_NoOffset(d, o, bld) ==
    u16_from_bytes(d, o)

ItemIndex_from_bytes(d, o, bld) ==
    LET raw == u16_from_bytes(d, o)
    IN  IF raw.kind # "Ok" THEN raw
        ELSE LET v == SubU16(raw.value, 2, bld)
             IN  IF v.kind = "Ok" THEN Ok(v.value, raw.offset)
                 ELSE Panic(v.error, raw.offset)

ItemIndex_to_bytes(v, bld) ==
    LET w == AddU16(v, 2, bld)
    IN  IF w.kind = "Ok" THEN u16_to_bytes(w.value) ELSE w

(***************************************************************************)
(* WorldPosition and WorldPosition2.                                       *)
(***************************************************************************)
\* the three bytes taken without the bounds check, a missing byte read as zero
WorldPosition_from_bytes_Unchecked(d, o) ==
    LET c == [i \in 1..3 |-> IF o + i <= Len(d) THEN d[o + i] ELSE 0]
        x == BitOr(Shr(c[2], 6), Shl8(c[1], 2))
        y == BitOr(Shr(c[3], 4), Shl8(BitAnd(c[2], 63), 4))
    IN  Ok([x |-> x, y |-> y], o + 3)

\* coordinates is a slice of u8, so x and y are computed in u8 and widened after
WorldPosition_from_bytes(d, o) ==
    LET s == slice(d, o, 3)
    IN  IF s.kind # "Ok" THEN s
        ELSE LET c == s.value
                 x == BitOr(Shr(c[2], 6), Shl8(c[1], 2))
                 y == BitOr(Shr(c[3], 4), Shl8(BitAnd(c[2], 63), 4))
             IN  Ok([x |-> x, y |-> y], s.offset)

\* the three values stored without the casts to u8
WorldPosition_to_bytes_Untruncated(p) ==
    LET c0 == Shr(p.x, 2)
        c1 == BitOr(ShlUsize(p.x, 6), BitAnd(Shr(p.y, 4), 63))
        c2 == ShlUsize(p.y, 4)
    IN  Ok(<<c0, c1, c2>>, 0)

WorldPosition_to_bytes(p) ==
    LET c0 == AsU8(Shr(p.x, 2))
        c1 == BitOr(AsU8(ShlUsize(p.x, 6)), AsU8(BitAnd(Shr(p.y, 4), 63)))
        c2 == AsU8(ShlUsize(p.y, 4))
    IN  Ok(<<c0, c1, c2>>, 0)

\* the six bytes taken without the bounds check, a missing byte read as zero
WorldPosition2_from_bytes_Unchecked(d, o) ==
    LET c == [i \in 1..6 |-> IF o + i <= Len(d) THEN d[o + i] ELSE 0]
        x1 == BitOr(Shr(c[2], 6), ShlUsize(c[1], 2))
        y1 == BitOr(Shr(c[3], 4), ShlUsize(BitAnd(c[2], 63), 4))
        x2 == BitOr(Shr(c[4], 2), ShlUsize(BitAnd(c[3], 15), 6))
        y2 == BitOr(c[5], ShlUsize(BitAnd(c[4], 3), 8))
    IN  Ok([x1 |-> x1, y1 |-> y1, x2 |-> x2, y2 |-> y2], o + 6)

\* y2 taken from the sixth byte in place of the fifth
WorldPosition2_from_bytes_SixthByte(d, o) ==
    LET s == slice(d, o, 6)
    IN  IF s.kind # "Ok" THEN s
        ELSE LET c == s.value
                 x1 == BitOr(Shr(c[2], 6), ShlUsize(c[1], 2))
                 y1 == BitOr(Shr(c[3], 4), ShlUsize(BitAnd(c[2], 63), 4))
                 x2 == BitOr(Shr(c[4], 2), ShlUsize(BitAnd(c[3], 15), 6))
                 y2 == BitOr(c[6], ShlUsize(BitAnd(c[4], 3), 8))
             IN  Ok([x1 |-> x1, y1 |-> y1, x2 |-> x2, y2 |-> y2], s.offset)

\* the bytes are widened to usize before the shifts
WorldPosition2_from_bytes(d, o) ==
    LET s == slice(d, o, 6)
    IN  IF s.kind # "Ok" THEN s
        ELSE LET c == s.value
                 x1 == BitOr(Shr(c[2], 6), ShlUsize(c[1], 2))
                 y1 == BitOr(Shr(c[3], 4), ShlUsize(BitAnd(c[2], 63), 4))
                 x2 == BitOr(Shr(c[4], 2), ShlUsize(BitAnd(c[3], 15), 6))
                 y2 == BitOr(c[5], ShlUsize(BitAnd(c[4], 3), 8))
             IN  Ok([x1 |-> x1, y1 |-> y1, x2 |-> x2, y2 |-> y2], s.offset)

(***************************************************************************)
(* Enums: the declared tables, and the codec derived from them.            *)
(* A variant is its position in the declaration; <<n>> is a variant with   *)
(* #[numeric_value(n)], <<>> one without; numeric_type is the byte width   *)
(* of #[numeric_type(..)], one byte when there is none.                    *)
(***************************************************************************)
Sex ==
    [numeric_type |-> 1, variants |-> <<
        <<>>, <<>>, <<>>, <<>> >>]

LoginFailedReason ==
    [numeric_type |-> 1, variants |-> <<
        <<1>>, <<2>>, <<8>> >>]

LoginFailedReason2 ==
    [numeric_type |-> 1, variants |-> <<
        <<>>, <<>>, <<>>, <<>>, <<>>, <<>>, <<>>, <<>>, <<>> >>]

CharacterSelectionFailedReason ==
    [numeric_type |-> 1, variants |-> <<
        <<>> >>]

CharacterCreationFailedReason ==
    [numeric_type |-> 1, variants |-> <<
        <<>>, <<>>, <<3>>, <<255>> >>]

CharacterDeletionFailedReason ==
    [numeric_type |-> 1, variants |-> <<
        <<>>, <<>>, <<>> >>]

Action ==
    [numeric_type |-> 1, variants |-> <<
        <<>>, <<>>, <<>>, <<>>, <<7>>, <<12>> >>]

SwitchCharacterSlotResponseStatus ==
    [numeric_type |-> 2, variants |-> <<
        <<>>, <<>> >>]

DissapearanceReason ==
    [numeric_type |-> 1, variants |-> <<
        <<>>, <<>>, <<>>, <<>>, <<>> >>]

\* the declaration without its #[numeric_type(u32)]
SkillType_OneByte ==
    [numeric_type |-> 1, variants |-> <<
        <<0>>, <<1>>, <<2>>, <<4>>, <<16>>, <<32>> >>]

SkillType ==
    [numeric_type |-> 4, variants |-> <<
        <<0>>, <<1>>, <<2>>, <<4>>, <<16>>, <<32>> >>]

MarkerType ==
    [numeric_type |-> 4, variants |-> <<
        <<>>, <<>>, <<>> >>]

HealType ==
    [numeric_type |-> 2, variants |-> <<
        <<5>>, <<7>> >>]

VisualEffect ==
    [numeric_type |-> 4, variants |-> <<
        <<>>, <<>>, <<>>, <<>>, <<>>, <<>>, <<>>, <<>>, <<>>, <<>> >>]

ExperienceType ==
    [numeric_type |-> 2, variants |-> <<
        <<1>>, <<>> >>]

ExperienceSource ==
    [numeric_type |-> 2, variants |-> <<
        <<>>, <<>> >>]

ImageLocation ==
    [numeric_type |-> 1, variants |-> <<
        <<>>, <<>>, <<>>, <<>>, <<>>, <<255>> >>]

RemoveItemReason ==
    [numeric_type |-> 2, variants |-> <<
        <<>>, <<>>, <<>>, <<>>, <<>>, <<>>, <<>>, <<>> >>]

QuestEffect ==
    [numeric_type |-> 2, variants |-> <<
        <<>>, <<>>, <<>>, <<>>, <<>>, <<>>, <<>>, <<>>, <<>>, <<>>,
        <<>>, <<9999>> >>]

QuestColor ==
    [numeric_type |-> 2, variants |-> <<
        <<>>, <<>>, <<>>, <<>> >>]

EquipPosition ==
    [numeric_type |-> 4, variants |-> <<
        <<0>>, <<1>>, <<512>>, <<256>>, <<2>>, <<32>>, <<16>>, <<64>>, <<4>>, <<8>>,
        <<128>>, <<1024>>, <<2048>>, <<4196>>, <<8192>>, <<32768>>, <<65536>>, <<131072>>, <<262144>>, <<524288>>,
        <<1048576>>, <<2097152>>, <<136>>, <<34>>, <<3145728>> >>]

RequestEquipItemStatus ==
    [numeric_type |-> 1, variants |-> <<
        <<>>, <<>>, <<>> >>]

RequestUnequipItemStatus ==
    [numeric_type |-> 1, variants |-> <<
        <<>>, <<>> >>]

RestartType ==
    [numeric_type |-> 1, variants |-> <<
        <<>>, <<>> >>]

RestartResponseStatus ==
    [numeric_type |-> 1, variants |-> <<
        <<>>, <<>> >>]

DisconnectResponseStatus ==
    [numeric_type |-> 2, variants |-> <<
        <<>>, <<>> >>]

UnitId ==
    [numeric_type |-> 4, variants |-> <<
        <<126>>, <<>>, <<>>, <<>>, <<>>, <<>>, <<>>, <<>>, <<>>, <<>>,
        <<>>, <<>>, <<>>, <<>>, <<>>, <<>>, <<>>, <<>>, <<>>, <<>>,
        <<>>, <<>>, <<>>, <<>>, <<>>, <<>>, <<>>, <<>>, <<>>, <<>>,
        <<>>, <<>>, <<>>, <<>>, <<>>, <<>>, <<>>, <<>>, <<>>, <<>>,
        <<>>, <<>>, <<>>, <<>>, <<>>, <<>>, <<>>, <<>>, <<>>, <<>>,
        <<>>, <<>>, <<>>, <<>>, <<>>, <<>>, <<>>, <<>>, <<>>, <<>>,
        <<>>, <<>>, <<>>, <<>>, <<>>, <<>>, <<>>, <<>>, <<>>, <<>>,
        <<>>, <<>>, <<>>, <<>>, <<>>, <<>>, <<>>, <<>>, <<>>, <<>>,
        <<>>, <<>>, <<>>, <<>>, <<>>, <<>>, <<>>, <<>>, <<>>, <<>>,
        <<>>, <<>>, <<>>, <<>>, <<>>, <<>>, <<>>, <<>>, <<>>, <<>>,
        <<>>, <<>>, <<>>, <<>>, <<>>, <<>>, <<>>, <<>>, <<>>, <<>>,
        <<>>, <<>>, <<>>, <<>>, <<>>, <<>>, <<>>, <<>>, <<>>, <<>>,
        <<>>, <<>>, <<>>, <<>>, <<>>, <<>>, <<>>, <<>>, <<>>, <<>>,
        <<>>, <<>>, <<>>, <<>>, <<>>, <<>>, <<>>, <<>>, <<>>, <<>>,
        <<>>, <<>>, <<269>>, <<>>, <<>>, <<>>, <<>>, <<>>, <<>>, <<>>,
        <<>>, <<>>, <<>>, <<>>, <<>>, <<>>, <<>>, <<>>, <<>>, <<>>,
        <<>>, <<>>, <<290>>, <<>>, <<>>, <<>>, <<>>, <<>>, <<>>, <<298>>,
        <<20852>>, <<>>, <<>>, <<>>, <<193>>, <<194>>, <<195>>, <<196>>, <<400>> >>]

OnlineState ==
    [numeric_type |-> 1, variants |-> <<
        <<>>, <<>> >>]

FriendRequestResponse ==
    [numeric_type |-> 4, variants |-> <<
        <<>>, <<>> >>]

FriendRequestResult ==
    [numeric_type |-> 2, variants |-> <<
        <<>>, <<>>, <<>>, <<>> >>]

Enums ==
    [Sex |-> Sex,
     LoginFailedReason |-> LoginFailedReason,
     LoginFailedReason2 |-> LoginFailedReason2,
     CharacterSelectionFailedReason |-> CharacterSelectionFailedReason,
     CharacterCreationFailedReason |-> CharacterCreationFailedReason,
     CharacterDeletionFailedReason |-> CharacterDeletionFailedReason,
     Action |-> Action,
     SwitchCharacterSlotResponseStatus |-> SwitchCharacterSlotResponseStatus,
     DissapearanceReason |-> DissapearanceReason,
     SkillType |-> SkillType,
     MarkerType |-> MarkerType,
     HealType |-> HealType,
     VisualEffect |-> VisualEffect,
     ExperienceType |-> ExperienceType,
     ExperienceSource |-> ExperienceSource,
     ImageLocation |-> ImageLocation,
     RemoveItemReason |-> RemoveItemReason,
     QuestEffect |-> QuestEffect,
     QuestColor |-> QuestColor,
     EquipPosition |-> EquipPosition,
     RequestEquipItemStatus |-> RequestEquipItemStatus,
     RequestUnequipItemStatus |-> RequestUnequipItemStatus,
     RestartType |-> RestartType,
     RestartResponseStatus |-> RestartResponseStatus,
     DisconnectResponseStatus |-> DisconnectResponseStatus,
     UnitId |-> UnitId,
     OnlineState |-> OnlineState,
     FriendRequestResponse |-> FriendRequestResponse,
     FriendRequestResult |-> FriendRequestResult]

EnumNames == {"Sex", "LoginFailedReason", "LoginFailedReason2", "CharacterSelectionFailedReason", "CharacterCreationFailedReason", "CharacterDeletionFailedReason", "Action", "SwitchCharacterSlotResponseStatus", "DissapearanceReason", "SkillType", "MarkerType", "HealType", "VisualEffect", "ExperienceType", "ExperienceSource", "ImageLocation", "RemoveItemReason", "QuestEffect", "QuestColor", "EquipPosition", "RequestEquipItemStatus", "RequestUnequipItemStatus", "RestartType", "RestartResponseStatus", "DisconnectResponseStatus", "UnitId", "OnlineState", "FriendRequestResponse", "FriendRequestResult"}

\* the tag of each variant: its numeric_value, or the previous tag plus one
\* (the first variant's is 0), i.e. the nearest earlier numeric_value plus the distance
VariantTags(decl) ==
    LET vs == decl.variants
    IN  [i \in 1..Len(vs) |->
            LET valued == {j \in 1..i : vs[j] # <<>>}
            IN  IF valued = {} THEN i - 1
                ELSE LET last == CHOOSE j \in valued : \A k \in valued : k <= j
                     IN  vs[last][1] + (i - last)]

enum_to_bytes(decl, v) == Ok(ToLE(VariantTags(decl)[v], decl.numeric_type), 0)

\* the match arms are tried in declaration order
enum_from_bytes(decl, d, o) ==
    LET raw == uint_from_bytes(d, o, decl.numeric_type)
        tags == VariantTags(decl)
    IN  IF raw.kind # "Ok" THEN raw
        ELSE LET hits == {i \in 1..Len(tags) : tags[i] = raw.value}
             IN  IF hits = {} THEN Err("UnknownTag", raw.offset)
                 ELSE Ok(CHOOSE i \in hits : \A j \in hits : i <= j, raw.offset)

(***************************************************************************)
(* StatusType: a 16-bit status code, then the payload of that code.        *)
(***************************************************************************)
StatusTypeArms == <<
        [code |-> 0, variant |-> "MovementSpeed", payload |-> <<4>>],
        [code |-> 1, variant |-> "BaseExperience", payload |-> <<8>>],
        [code |-> 2, variant |-> "JobExperience", payload |-> <<8>>],
        [code |-> 3, variant |-> "Karma", payload |-> <<4>>],
        [code |-> 4, variant |-> "Manner", payload |-> <<4>>],
        [code |-> 5, variant |-> "HealthPoints", payload |-> <<4>>],
        [code |-> 6, variant |-> "MaximumHealthPoints", payload |-> <<4>>],
        [code |-> 7, variant |-> "SpellPoints", payload |-> <<4>>],
        [code |-> 8, variant |-> "MaximumSpellPoints", payload |-> <<4>>],
        [code |-> 9, variant |-> "StatusPoint", payload |-> <<4>>],
        [code |-> 11, variant |-> "BaseLevel", payload |-> <<4>>],
        [code |-> 12, variant |-> "SkillPoint", payload |-> <<4>>],
        [code |-> 13, variant |-> "Strength", payload |-> <<4, 4>>],
        [code |-> 14, variant |-> "Agility", payload |-> <<4, 4>>],
        [code |-> 15, variant |-> "Vitality", payload |-> <<4, 4>>],
        [code |-> 16, variant |-> "Intelligence", payload |-> <<4, 4>>],
        [code |-> 17, variant |-> "Dexterity", payload |-> <<4, 4>>],
        [code |-> 18, variant |-> "Luck", payload |-> <<4, 4>>],
        [code |-> 20, variant |-> "Zeny", payload |-> <<4>>],
        [code |-> 22, variant |-> "NextBaseExperience", payload |-> <<8>>],
        [code |-> 23, variant |-> "NextJobExperience", payload |-> <<8>>],
        [code |-> 24, variant |-> "Weight", payload |-> <<4>>],
        [code |-> 25, variant |-> "MaximumWeight", payload |-> <<4>>],
        [code |-> 32, variant |-> "SpUstr", payload |-> <<1>>],
        [code |-> 33, variant |-> "SpUagi", payload |-> <<1>>],
        [code |-> 34, variant |-> "SpUvit", payload |-> <<1>>],
        [code |-> 35, variant |-> "SpUint", payload |-> <<1>>],
        [code |-> 36, variant |-> "SpUdex", payload |-> <<1>>],
        [code |-> 37, variant |-> "SpUluk", payload |-> <<1>>],
        [code |-> 41, variant |-> "Attack1", payload |-> <<4>>],
        [code |-> 42, variant |-> "Attack2", payload |-> <<4>>],
        [code |-> 43, variant |-> "MagicAttack1", payload |-> <<4>>],
        [code |-> 44, variant |-> "MagicAttack2", payload |-> <<4>>],
        [code |-> 45, variant |-> "Defense1", payload |-> <<4>>],
        [code |-> 46, variant |-> "Defense2", payload |-> <<4>>],
        [code |-> 47, variant |-> "MagicDefense1", payload |-> <<4>>],
        [code |-> 48, variant |-> "MagicDefense2", payload |-> <<4>>],
        [code |-> 49, variant |-> "Hit", payload |-> <<4>>],
        [code |-> 50, variant |-> "Flee1", payload |-> <<4>>],
        [code |-> 51, variant |-> "Flee2", payload |-> <<4>>],
        [code |-> 52, variant |-> "Critical", payload |-> <<4>>],
        [code |-> 53, variant |-> "AttackSpeed", payload |-> <<4>>],
        [code |-> 55, variant |-> "JobLevel", payload |-> <<4>>],
        [code |-> 99, variant |-> "CartInfo", payload |-> <<2, 4, 4>>],
        [code |-> 219, variant |-> "Power", payload |-> <<4, 4>>],
        [code |-> 220, variant |-> "Stamina", payload |-> <<4, 4>>],
        [code |-> 221, variant |-> "Wisdom", payload |-> <<4, 4>>],
        [code |-> 222, variant |-> "Spell", payload |-> <<4, 4>>],
        [code |-> 223, variant |-> "Concentration", payload |-> <<4, 4>>],
        [code |-> 224, variant |-> "Creativity", payload |-> <<4, 4>>],
        [code |-> 225, variant |-> "PhysicalAttack", payload |-> <<4>>],
        [code |-> 226, variant |-> "SpellMagicAttack", payload |-> <<4>>],
        [code |-> 227, variant |-> "Resistance", payload |-> <<4>>],
        [code |-> 228, variant |-> "MagicResistance", payload |-> <<4>>],
        [code |-> 229, variant |-> "HealingPlus", payload |-> <<4>>],
        [code |-> 230, variant |-> "CriticalDamageRate", payload |-> <<4>>],
        [code |-> 231, variant |-> "TraitPoint", payload |-> <<4>>],
        [code |-> 232, variant |-> "ActivityPoints", payload |-> <<4>>],
        [code |-> 233, variant |-> "MaximumActivityPoints", payload |-> <<4>>],
        [code |-> 247, variant |-> "SpUpow", payload |-> <<1>>],
        [code |-> 248, variant |-> "SpUsta", payload |-> <<1>>],
        [code |-> 249, variant |-> "SpUwis", payload |-> <<1>>],
        [code |-> 250, variant |-> "SpUspl", payload |-> <<1>>],
        [code |-> 251, variant |-> "SpUcon", payload |-> <<1>>],
        [code |-> 252, variant |-> "SpUcrt", payload |-> <<1>>] >>

\* the payload fields, a failed read ending the value with the fields read so far
RECURSIVE ReadFields_Partial(_, _, _)
ReadFields_Partial(d, o, widths) ==
    IF widths = <<>> THEN Ok(<<>>, o)
    ELSE LET f == uint_from_bytes(d, o, Head(widths))
         IN  IF f.kind # "Ok" THEN Ok(<<>>, o)
             ELSE LET rest == ReadFields_Partial(d, f.offset, Tail(widths))
                  IN  Ok(<<f.value>> \o rest.value, rest.offset)

\* the payload fields, read one after the other; the first failure ends the read
RECURSIVE ReadFields(_, _, _)
ReadFields(d, o, widths) ==
    IF widths = <<>> THEN Ok(<<>>, o)
    ELSE LET f == uint_from_bytes(d, o, Head(widths))
         IN  IF f.kind # "Ok" THEN f
             ELSE LET rest == ReadFields(d, f.offset, Tail(widths))
                  IN  IF rest.kind # "Ok" THEN rest
                      ELSE Ok(<<f.value>> \o rest.value, rest.offset)

StatusArm(code) == {i \in 1..Len(StatusTypeArms) : StatusTypeArms[i].code = code}

\* an unlisted code falls back to the first arm instead of failing
StatusType_from_bytes_Default(d, o) ==
    LET status == u16_from_bytes(d, o)
    IN  IF status.kind # "Ok" THEN status
        ELSE LET arm == IF StatusArm(status.value) = {} THEN StatusTypeArms[1]
                        ELSE StatusTypeArms[CHOOSE i \in StatusArm(status.value) : TRUE]
                 fields == ReadFields(d, status.offset, arm.payload)
             IN  IF fields.kind # "Ok" THEN fields
                 ELSE Ok([variant |-> arm.variant, fields |-> fields.value], fields.offset)

StatusType_from_bytes(d, o) ==
    LET status == u16_from_bytes(d, o)
    IN  IF status.kind # "Ok" THEN status
        ELSE IF StatusArm(status.value) = {}
             THEN Err("invalid status code", status.offset)
             ELSE LET arm == StatusTypeArms[CHOOSE i \in StatusArm(status.value) : TRUE]
                      fields == ReadFields(d, status.offset, arm.payload)
                  IN  IF fields.kind # "Ok" THEN fields
                      ELSE Ok([variant |-> arm.variant, fields |-> fields.value], fields.offset)

(***************************************************************************)
(* Packet declarations.  A field is its name, its kind and its byte width; *)
(* the attributes of the derive are the constructors below.                *)
(***************************************************************************)
Field(name, kind, size, marker, ref, k, elem) ==
    [name |-> name, kind |-> kind, size |-> size, marker |-> marker,
     ref |-> ref, K |-> k, elem |-> elem]

\* an unsigned integer of n bytes
uint(name, n) == Field(name, "uint", n, FALSE, "", 0, 0)

\* a byte array or a nested structure of fixed size
bytes(name, n) == Field(name, "bytes", n, FALSE, "", 0, 0)

\* #[packet_length] on an unsigned integer of n bytes
packet_length(name, n) == Field(name, "uint", n, TRUE, "", 0, 0)

\* #[length_hint(n)] on a String
length_hint(name, n) == Field(name, "string", n, FALSE, "", 0, 0)

\* #[length_hint(self.ref - k)] on a String
length_hint_minus(name, ref, k) == Field(name, "string", 0, FALSE, ref, k, 0)

\* #[length_hint(n)] on a value that is not a String: a region of n bytes
length_hint_value(name, n) == Field(name, "value", n, FALSE, "", 0, 0)

\* #[repeating(self.ref)] on a Vec of elements of elem bytes
repeating(name, ref, elem) == Field(name, "repeating", 0, FALSE, ref, 0, elem)

\* #[repeating_remaining] on a Vec of elements of elem bytes
repeating_remaining(name, elem) == Field(name, "repeating_remaining", 0, FALSE, "", 0, elem)

\* header 0x0064
LoginServerLoginPacket ==
    [header |-> 100,
     fields |-> << bytes("version", 4),
                   length_hint("name", 24),
                   length_hint("password", 24),
                   uint("client_type", 1) >>]

\* header 0x0A39
CreateCharacterPacket ==
    [header |-> 2617,
     fields |-> << length_hint("name", 24),
                   uint("slot", 1),
                   uint("hair_color", 2),
                   uint("hair_style", 2),
                   uint("start_job", 2),
                   bytes("unknown", 2),
                   uint("sex", 1) >>]

\* the declaration with the email in 24 bytes, as the names are
DeleteCharacterPacket_ShortEmail ==
    [header |-> 507,
     fields |-> << uint("character_id", 4),
                   length_hint("email", 24),
                   bytes("unknown", 10) >>]

\* header 0x01FB
DeleteCharacterPacket ==
    [header |-> 507,
     fields |-> << uint("character_id", 4),
                   length_hint("email", 40),
                   bytes("unknown", 10) >>]

\* header 0x00B0
UpdateStatusPacket ==
    [header |-> 176, fields |-> << length_hint_value("status_type", 6) >>]

\* header 0x0141
UpdateStatusPacket1 ==
    [header |-> 321, fields |-> << length_hint_value("status_type", 12) >>]

\* header 0x0ACB
UpdateStatusPacket2 ==
    [header |-> 2763, fields |-> << length_hint_value("status_type", 10) >>]

\* header 0x00BE
UpdateStatusPacket3 ==
    [header |-> 190, fields |-> << length_hint_value("status_type", 3) >>]

\* header 0x0B18
Packet180b ==
    [header |-> 2840, fields |-> << uint("unknown", 2) >>]

\* header 0x0840
MapServerUnavailablePacket ==
    [header |-> 2112,
     fields |-> << uint("packet_length", 2),
                   length_hint_minus("unknown", "packet_length", 4) >>]

\* header 0x008E
ServerMessagePacket ==
    [header |-> 142,
     fields |-> << uint("packet_length", 2),
                   length_hint_minus("message", "packet_length", 4) >>]

\* size of AchievementData: u32, u8, [u32; 10], u32, u8
AchievementData == 50

\* header 0x0A23
AchievementListPacket ==
    [header |-> 2595,
     fields |-> << packet_length("packet_length", 2),
                   uint("acheivement_count", 4),
                   uint("total_score", 4),
                   uint("level", 2),
                   uint("acheivement_experience", 4),
                   uint("acheivement_experience_to_next_level", 4),
                   repeating("acheivement_data", "acheivement_count", AchievementData) >>]

\* header 0x0B08
InventoyStartPacket ==
    [header |-> 2824,
     fields |-> << uint("packet_length", 2),
                   uint("inventory_type", 1),
                   length_hint_minus("inventory_name", "packet_length", 5) >>]

\* header 0x01C3; font_color is a ColorRGBA
Broadcast2MessagePacket ==
    [header |-> 451,
     fields |-> << uint("packet_length", 2),
                   bytes("font_color", 4),
                   uint("font_type", 2),
                   uint("font_size", 2),
                   uint("font_alignment", 2),
                   uint("font_y", 2),
                   length_hint_minus("message", "packet_length", 16) >>]

\* header 0x009A
BroadcastMessagePacket ==
    [header |-> 154,
     fields |-> << uint("packet_length", 2),
                   length_hint_minus("message", "packet_length", 2) >>]

\* header 0x008D; entity_id is an EntityId(u32)
OverheadMessagePacket ==
    [header |-> 141,
     fields |-> << uint("packet_length", 2),
                   uint("entity_id", 4),
                   length_hint_minus("message", "packet_length", 6) >>]

\* header 0x02C1; color is a ColorBGRA
EntityMessagePacket ==
    [header |-> 705,
     fields |-> << uint("packet_length", 2),
                   uint("entity_id", 4),
                   bytes("color", 4),
                   length_hint_minus("message", "packet_length", 12) >>]

\* header 0x00B7
DialogMenuPacket ==
    [header |-> 183,
     fields |-> << uint("packet_length", 2),
                   uint("entity_id", 4),
                   length_hint_minus("message", "packet_length", 8) >>]

\* header 0x00B4
NpcDialogPacket ==
    [header |-> 180,
     fields |-> << uint("packet_length", 2),
                   uint("npc_id", 4),
                   length_hint_minus("text", "packet_length", 8) >>]

\* size of CharacterInformation: 4+8+4+8, six i32, i16, four i64, thirteen i16,
\* name (24), eight u8, i16, map_name (16), four i32, sex (1)
CharacterInformation == 175

\* header 0x0B72
RequestCharacterListSuccessPacket ==
    [header |-> 2930,
     fields |-> << packet_length("packet_length", 2),
                   repeating_remaining("character_information", CharacterInformation) >>]

\* size of Friend: account_id, character_id, name (24)
Friend == 32

\* the declaration without #[packet_length] on its length
FriendListPacket_Unmarked ==
    [header |-> 513,
     fields |-> << uint("packet_length", 2),
                   repeating_remaining("friends", Friend) >>]

\* header 0x0201
FriendListPacket ==
    [header |-> 513,
     fields |-> << packet_length("packet_length", 2),
                   repeating_remaining("friends", Friend) >>]

\* size of CharacterServerInformation
CharacterServerInformation == 160

\* size of RegularItemInformation
RegularItemInformation == 34

\* size of EquippableItemInformation
EquippableItemInformation == 68

\* size of EquippableSwitchItemInformation
EquippableSwitchItemInformation == 6

\* size of SkillInformation
SkillInformation == 37

\* size of HuntingObjective
HuntingObjective == 12

\* size of QuestDetails
QuestDetails == 44

\* size of ReputationEntry
ReputationEntry == 16

\* size of Aliance
Aliance == 24

\* size of Antagonist
Antagonist == 24

\* header 0x0AC4
LoginServerLoginSuccessPacket ==
    [header |-> 2756,
     fields |-> << packet_length("packet_length", 2),
                   uint("login_id1", 4),
                   uint("account_id", 4),
                   uint("login_id2", 4),
                   uint("ip_address", 4),
                   bytes("name", 24),
                   uint("unknown", 2),
                   uint("sex", 1),
                   bytes("auth_token", 17),
                   repeating_remaining("character_server_information", CharacterServerInformation) >>]

\* header 0x0B09
RegularItemListPacket ==
    [header |-> 2825,
     fields |-> << packet_length("packet_length", 2),
                   uint("inventory_type", 1),
                   repeating_remaining("item_information", RegularItemInformation) >>]

\* header 0x0B39
EquippableItemListPacket ==
    [header |-> 2873,
     fields |-> << packet_length("packet_length", 2),
                   uint("inventory_type", 1),
                   repeating_remaining("item_information", EquippableItemInformation) >>]

\* header 0x0A9B
EquippableSwitchItemListPacket ==
    [header |-> 2715,
     fields |-> << packet_length("packet_length", 2),
                   repeating_remaining("item_information", EquippableSwitchItemInformation) >>]

\* header 0x010F
UpdateSkillTreePacket ==
    [header |-> 271,
     fields |-> << packet_length("packet_length", 2),
                   repeating_remaining("skill_information", SkillInformation) >>]

\* header 0x08FE
HuntingQuestNotificationPacket ==
    [header |-> 2302,
     fields |-> << packet_length("packet_length", 2),
                   repeating_remaining("objective_details", HuntingObjective) >>]

\* header 0x09FA
HuntingQuestUpdateObjectivePacket ==
    [header |-> 2554,
     fields |-> << packet_length("packet_length", 2),
                   uint("objective_count", 2),
                   repeating_remaining("objective_details", HuntingObjective) >>]

\* a substructure: it has no header
Quest ==
    [fields |-> << packet_length("quest_id", 4),
                   uint("active", 1),
                   uint("remaining_time", 4),
                   uint("expire_time", 4),
                   uint("objective_count", 2),
                   repeating("objective_details", "objective_count", QuestDetails) >>]

\* header 0x09F8; its elements are Quest substructures, of no fixed size
QuestListPacket ==
    [header |-> 2552,
     fields |-> << packet_length("packet_length", 2),
                   uint("quest_count", 4),
                   repeating("quests", "quest_count", Quest) >>]

\* the declaration without #[packet_length] on its length
ReputationPacket_Unmarked ==
    [header |-> 2957,
     fields |-> << uint("packet_length", 2),
                   uint("success", 1),
                   repeating_remaining("entries", ReputationEntry) >>]

\* header 0x0B8D
ReputationPacket ==
    [header |-> 2957,
     fields |-> << packet_length("packet_length", 2),
                   uint("success", 1),
                   repeating_remaining("entries", ReputationEntry) >>]

\* the declaration with the two counts after the lists they count
ClanInfoPacket_CountsLast ==
    [header |-> 2442,
     fields |-> << packet_length("packet_length", 2),
                   uint("clan_id", 4),
                   length_hint("clan_name", 24),
                   length_hint("clan_master", 24),
                   length_hint("clan_map", 16),
                   repeating("aliances", "aliance_count", Aliance),
                   repeating("antagonists", "antagonist_count", Antagonist),
                   uint("aliance_count", 1),
                   uint("antagonist_count", 1) >>]

\* header 0x098A
ClanInfoPacket ==
    [header |-> 2442,
     fields |-> << packet_length("packet_length", 2),
                   uint("clan_id", 4),
                   length_hint("clan_name", 24),
                   length_hint("clan_master", 24),
                   length_hint("clan_map", 16),
                   uint("aliance_count", 1),
                   uint("antagonist_count", 1),
                   repeating("aliances", "aliance_count", Aliance),
                   repeating("antagonists", "antagonist_count", Antagonist) >>]

\* the helper for unknown incoming packets: HEADER is 0 and it declares no field
UnknownPacket ==
    [header |-> 0, fields |-> <<>>]

Packets ==
    [Packet180b |-> Packet180b,
     MapServerUnavailablePacket |-> MapServerUnavailablePacket,
     ServerMessagePacket |-> ServerMessagePacket,
     AchievementListPacket |-> AchievementListPacket,
     InventoyStartPacket |-> InventoyStartPacket,
     Broadcast2MessagePacket |-> Broadcast2MessagePacket,
     BroadcastMessagePacket |-> BroadcastMessagePacket,
     OverheadMessagePacket |-> OverheadMessagePacket,
     EntityMessagePacket |-> EntityMessagePacket,
     DialogMenuPacket |-> DialogMenuPacket,
     NpcDialogPacket |-> NpcDialogPacket,
     RequestCharacterListSuccessPacket |-> RequestCharacterListSuccessPacket,
     FriendListPacket |-> FriendListPacket,
     LoginServerLoginPacket |-> LoginServerLoginPacket,
     CreateCharacterPacket |-> CreateCharacterPacket,
     DeleteCharacterPacket |-> DeleteCharacterPacket,
     LoginServerLoginSuccessPacket |-> LoginServerLoginSuccessPacket,
     RegularItemListPacket |-> RegularItemListPacket,
     EquippableItemListPacket |-> EquippableItemListPacket,
     EquippableSwitchItemListPacket |-> EquippableSwitchItemListPacket,
     UpdateSkillTreePacket |-> UpdateSkillTreePacket,
     HuntingQuestNotificationPacket |-> HuntingQuestNotificationPacket,
     HuntingQuestUpdateObjectivePacket |-> HuntingQuestUpdateObjectivePacket,
     QuestListPacket |-> QuestListPacket,
     ReputationPacket |-> ReputationPacket,
     ClanInfoPacket |-> ClanInfoPacket,
     UpdateStatusPacket |-> UpdateStatusPacket,
     UpdateStatusPacket1 |-> UpdateStatusPacket1,
     UpdateStatusPacket2 |-> UpdateStatusPacket2,
     UpdateStatusPacket3 |-> UpdateStatusPacket3,
     UnknownPacket |-> UnknownPacket]

\* the substructures that carry attributes of their own
Structs == [Quest |-> Quest]

Substructures == DOMAIN Structs

\* the packets whose trailing string is packet_length - K bytes long
StringPackets ==
    {"MapServerUnavailablePacket", "ServerMessagePacket", "InventoyStartPacket",
     "Broadcast2MessagePacket", "BroadcastMessagePacket", "OverheadMessagePacket",
     "EntityMessagePacket", "DialogMenuPacket", "NpcDialogPacket"}

PacketNames == StringPackets \cup {"Packet180b", "AchievementListPacket", "UnknownPacket"}

\* every #[header(...)] of the packet declarations, in declaration order;
\* incoming tells derive(IncomingPacket) from derive(OutgoingPacket)
HeaderTable ==
    ("LoginServerLoginPacket" :> [header |-> 100, incoming |-> FALSE]) @@
    ("LoginServerLoginSuccessPacket" :> [header |-> 2756, incoming |-> TRUE]) @@
    ("CharacterServerLoginSuccessPacket" :> [header |-> 2093, incoming |-> TRUE]) @@
    ("Packet6b00" :> [header |-> 107, incoming |-> TRUE]) @@
    ("Packet180b" :> [header |-> 2840, incoming |-> TRUE]) @@
    ("MapServerLoginSuccessPacket" :> [header |-> 747, incoming |-> TRUE]) @@
    ("LoginFailedPacket" :> [header |-> 129, incoming |-> TRUE]) @@
    ("MapServerUnavailablePacket" :> [header |-> 2112, incoming |-> TRUE]) @@
    ("LoginFailedPacket2" :> [header |-> 2110, incoming |-> TRUE]) @@
    ("CharacterSelectionFailedPacket" :> [header |-> 108, incoming |-> TRUE]) @@
    ("CharacterSelectionSuccessPacket" :> [header |-> 2757, incoming |-> TRUE]) @@
    ("CharacterCreationFailedPacket" :> [header |-> 110, incoming |-> TRUE]) @@
    ("LoginServerKeepalivePacket" :> [header |-> 512, incoming |-> FALSE]) @@
    ("CharacterServerLoginPacket" :> [header |-> 101, incoming |-> FALSE]) @@
    ("MapServerLoginPacket" :> [header |-> 1078, incoming |-> FALSE]) @@
    ("Packet8302" :> [header |-> 643, incoming |-> TRUE]) @@
    ("CreateCharacterPacket" :> [header |-> 2617, incoming |-> FALSE]) @@
    ("CreateCharacterSuccessPacket" :> [header |-> 2927, incoming |-> TRUE]) @@
    ("RequestCharacterListPacket" :> [header |-> 2465, incoming |-> FALSE]) @@
    ("RequestCharacterListSuccessPacket" :> [header |-> 2930, incoming |-> TRUE]) @@
    ("RequestPlayerMovePacket" :> [header |-> 2177, incoming |-> FALSE]) @@
    ("RequestWarpToMapPacket" :> [header |-> 320, incoming |-> FALSE]) @@
    ("EntityMovePacket" :> [header |-> 134, incoming |-> TRUE]) @@
    ("EntityStopMovePacket" :> [header |-> 136, incoming |-> TRUE]) @@
    ("PlayerMovePacket" :> [header |-> 135, incoming |-> TRUE]) @@
    ("DeleteCharacterPacket" :> [header |-> 507, incoming |-> FALSE]) @@
    ("CharacterDeletionFailedPacket" :> [header |-> 112, incoming |-> TRUE]) @@
    ("CharacterDeletionSuccessPacket" :> [header |-> 111, incoming |-> TRUE]) @@
    ("SelectCharacterPacket" :> [header |-> 102, incoming |-> FALSE]) @@
    ("ServerMessagePacket" :> [header |-> 142, incoming |-> TRUE]) @@
    ("RequestDetailsPacket" :> [header |-> 872, incoming |-> FALSE]) @@
    ("RequestPlayerDetailsSuccessPacket" :> [header |-> 2608, incoming |-> TRUE]) @@
    ("RequestEntityDetailsSuccessPacket" :> [header |-> 2783, incoming |-> TRUE]) @@
    ("NewMailStatusPacket" :> [header |-> 2535, incoming |-> TRUE]) @@
    ("AchievementUpdatePacket" :> [header |-> 2596, incoming |-> TRUE]) @@
    ("AchievementListPacket" :> [header |-> 2595, incoming |-> TRUE]) @@
    ("CriticalWeightUpdatePacket" :> [header |-> 2782, incoming |-> TRUE]) @@
    ("SpriteChangePacket" :> [header |-> 471, incoming |-> TRUE]) @@
    ("InventoyStartPacket" :> [header |-> 2824, incoming |-> TRUE]) @@
    ("InventoyEndPacket" :> [header |-> 2827, incoming |-> TRUE]) @@
    ("RegularItemListPacket" :> [header |-> 2825, incoming |-> TRUE]) @@
    ("EquippableItemListPacket" :> [header |-> 2873, incoming |-> TRUE]) @@
    ("EquippableSwitchItemListPacket" :> [header |-> 2715, incoming |-> TRUE]) @@
    ("MapTypePacket" :> [header |-> 2459, incoming |-> TRUE]) @@
    ("Broadcast2MessagePacket" :> [header |-> 451, incoming |-> TRUE]) @@
    ("BroadcastMessagePacket" :> [header |-> 154, incoming |-> TRUE]) @@
    ("OverheadMessagePacket" :> [header |-> 141, incoming |-> TRUE]) @@
    ("EntityMessagePacket" :> [header |-> 705, incoming |-> TRUE]) @@
    ("DisplayEmotionPacket" :> [header |-> 192, incoming |-> TRUE]) @@
    ("UpdateStatusPacket" :> [header |-> 176, incoming |-> TRUE]) @@
    ("StatusChangeSequencePacket" :> [header |-> 406, incoming |-> TRUE]) @@
    ("InitialStatusPacket" :> [header |-> 189, incoming |-> TRUE]) @@
    ("UpdateStatusPacket1" :> [header |-> 321, incoming |-> TRUE]) @@
    ("UpdateStatusPacket2" :> [header |-> 2763, incoming |-> TRUE]) @@
    ("UpdateStatusPacket3" :> [header |-> 190, incoming |-> TRUE]) @@
    ("UpdateAttackRangePacket" :> [header |-> 314, incoming |-> TRUE]) @@
    ("SwitchCharacterSlotPacket" :> [header |-> 2260, incoming |-> FALSE]) @@
    ("RequestActionPacket" :> [header |-> 1079, incoming |-> FALSE]) @@
    ("GlobalMessagePacket" :> [header |-> 243, incoming |-> FALSE]) @@
    ("RequestPlayerAttackFailedPacket" :> [header |-> 313, incoming |-> TRUE]) @@
    ("UpdateEntityHealthPointsPacket" :> [header |-> 2423, incoming |-> TRUE]) @@
    ("DamagePacket" :> [header |-> 2248, incoming |-> TRUE]) @@
    ("ServerTickPacket" :> [header |-> 127, incoming |-> TRUE]) @@
    ("RequestServerTickPacket" :> [header |-> 864, incoming |-> FALSE]) @@
    ("SwitchCharacterSlotResponsePacket" :> [header |-> 2928, incoming |-> TRUE]) @@
    ("ChangeMapPacket" :> [header |-> 145, incoming |-> TRUE]) @@
    ("EntityDisappearedPacket" :> [header |-> 128, incoming |-> TRUE]) @@
    ("MovingEntityAppearedPacket" :> [header |-> 2557, incoming |-> TRUE]) @@
    ("EntityAppearedPacket" :> [header |-> 2558, incoming |-> TRUE]) @@
    ("EntityAppeared2Packet" :> [header |-> 2559, incoming |-> TRUE]) @@
    ("UpdateSkillTreePacket" :> [header |-> 271, incoming |-> TRUE]) @@
    ("UpdateHotkeysPacket" :> [header |-> 2848, incoming |-> TRUE]) @@
    ("UpdatePartyInvitationStatePacket" :> [header |-> 713, incoming |-> TRUE]) @@
    ("UpdateShowEquipPacket" :> [header |-> 730, incoming |-> TRUE]) @@
    ("UpdateConfigurationPacket" :> [header |-> 729, incoming |-> TRUE]) @@
    ("NavigateToMonsterPacket" :> [header |-> 2274, incoming |-> TRUE]) @@
    ("MarkMinimapPositionPacket" :> [header |-> 324, incoming |-> TRUE]) @@
    ("NextButtonPacket" :> [header |-> 181, incoming |-> TRUE]) @@
    ("CloseButtonPacket" :> [header |-> 182, incoming |-> TRUE]) @@
    ("DialogMenuPacket" :> [header |-> 183, incoming |-> TRUE]) @@
    ("DisplaySpecialEffectPacket" :> [header |-> 499, incoming |-> TRUE]) @@
    ("DisplaySkillCooldownPacket" :> [header |-> 1085, incoming |-> TRUE]) @@
    ("DisplaySkillEffectAndDamagePacket" :> [header |-> 478, incoming |-> TRUE]) @@
    ("DisplayPlayerHealEffect" :> [header |-> 2599, incoming |-> TRUE]) @@
    ("DisplaySkillEffectNoDamagePacket" :> [header |-> 2507, incoming |-> TRUE]) @@
    ("StatusChangePacket" :> [header |-> 2435, incoming |-> TRUE]) @@
    ("QuestNotificationPacket1" :> [header |-> 2553, incoming |-> TRUE]) @@
    ("HuntingQuestNotificationPacket" :> [header |-> 2302, incoming |-> TRUE]) @@
    ("HuntingQuestUpdateObjectivePacket" :> [header |-> 2554, incoming |-> TRUE]) @@
    ("QuestRemovedPacket" :> [header |-> 692, incoming |-> TRUE]) @@
    ("QuestListPacket" :> [header |-> 2552, incoming |-> TRUE]) @@
    ("VisualEffectPacket" :> [header |-> 411, incoming |-> TRUE]) @@
    ("DisplayGainedExperiencePacket" :> [header |-> 2764, incoming |-> TRUE]) @@
    ("DisplayImagePacket" :> [header |-> 435, incoming |-> TRUE]) @@
    ("StateChangePacket" :> [header |-> 553, incoming |-> TRUE]) @@
    ("ItemPickupPacket" :> [header |-> 2881, incoming |-> TRUE]) @@
    ("RemoveItemFromInventoryPacket" :> [header |-> 2042, incoming |-> TRUE]) @@
    ("QuestEffectPacket" :> [header |-> 1094, incoming |-> TRUE]) @@
    ("NpcDialogPacket" :> [header |-> 180, incoming |-> TRUE]) @@
    ("MapLoadedPacket" :> [header |-> 125, incoming |-> FALSE]) @@
    ("CharacterServerKeepalivePacket" :> [header |-> 391, incoming |-> FALSE]) @@
    ("StartDialogPacket" :> [header |-> 144, incoming |-> FALSE]) @@
    ("NextDialogPacket" :> [header |-> 185, incoming |-> FALSE]) @@
    ("CloseDialogPacket" :> [header |-> 326, incoming |-> FALSE]) @@
    ("ChooseDialogOptionPacket" :> [header |-> 184, incoming |-> FALSE]) @@
    ("RequestEquipItemPacket" :> [header |-> 2456, incoming |-> FALSE]) @@
    ("RequestEquipItemStatusPacket" :> [header |-> 2457, incoming |-> TRUE]) @@
    ("RequestUnequipItemPacket" :> [header |-> 171, incoming |-> FALSE]) @@
    ("RequestUnequipItemStatusPacket" :> [header |-> 2458, incoming |-> TRUE]) @@
    ("RestartPacket" :> [header |-> 178, incoming |-> FALSE]) @@
    ("RestartResponsePacket" :> [header |-> 179, incoming |-> TRUE]) @@
    ("DisconnectResponsePacket" :> [header |-> 395, incoming |-> TRUE]) @@
    ("UseSkillAtIdPacket" :> [header |-> 1080, incoming |-> FALSE]) @@
    ("UseSkillOnGroundPacket" :> [header |-> 2804, incoming |-> FALSE]) @@
    ("StartUseSkillPacket" :> [header |-> 2832, incoming |-> FALSE]) @@
    ("EndUseSkillPacket" :> [header |-> 2833, incoming |-> FALSE]) @@
    ("UseSkillSuccessPacket" :> [header |-> 2043, incoming |-> TRUE]) @@
    ("ToUseSkillSuccessPacket" :> [header |-> 272, incoming |-> TRUE]) @@
    ("NotifySkillUnitPacket" :> [header |-> 2506, incoming |-> TRUE]) @@
    ("NotifyGroundSkillPacket" :> [header |-> 279, incoming |-> TRUE]) @@
    ("SkillUnitDisappearPacket" :> [header |-> 288, incoming |-> TRUE]) @@
    ("AddFriendPacket" :> [header |-> 514, incoming |-> FALSE]) @@
    ("RemoveFriendPacket" :> [header |-> 515, incoming |-> FALSE]) @@
    ("NotifyFriendRemovedPacket" :> [header |-> 522, incoming |-> TRUE]) @@
    ("FriendListPacket" :> [header |-> 513, incoming |-> TRUE]) @@
    ("FriendOnlineStatusPacket" :> [header |-> 518, incoming |-> TRUE]) @@
    ("FriendRequestPacket" :> [header |-> 519, incoming |-> TRUE]) @@
    ("FriendRequestResponsePacket" :> [header |-> 520, incoming |-> FALSE]) @@
    ("FriendRequestResultPacket" :> [header |-> 521, incoming |-> TRUE]) @@
    ("PartyInvitePacket" :> [header |-> 710, incoming |-> TRUE]) @@
    ("ReputationPacket" :> [header |-> 2957, incoming |-> TRUE]) @@
    ("ClanInfoPacket" :> [header |-> 2442, incoming |-> TRUE]) @@
    ("ClanOnlineCountPacket" :> [header |-> 2440, incoming |-> TRUE]) @@
    ("ChangeMapCellPacket" :> [header |-> 402, incoming |-> TRUE])

\* the tag with its high byte dropped
HeaderOf_LowByte(t) ==
    (IF t = "UnknownPacket" THEN UnknownPacket.header ELSE HeaderTable[t].header) % 256

\* the tag of a packet: its #[header(...)], and the HEADER of UnknownPacket
HeaderOf(t) ==
    IF t = "UnknownPacket" THEN UnknownPacket.header ELSE HeaderTable[t].header

\* the tags of the #[header(..)] declarations
RegisteredHeaders == {HeaderTable[t].header : t \in DOMAIN HeaderTable}

HeaderSize == 2

(***************************************************************************)
(* The derived struct decoder: the fields in declared order.               *)
(***************************************************************************)
\* a String of n bytes: the trailing zero bytes are padding
RECURSIVE TrimPadding(_)
TrimPadding(s) ==
    IF s = <<>> \/ s[Len(s)] # 0 THEN s ELSE TrimPadding(SubSeq(s, 1, Len(s) - 1))

string_from_n_bytes(d, o, n) ==
    LET s == slice(d, o, n)
    IN  IF s.kind = "Ok" THEN Ok(TrimPadding(s.value), s.offset) ELSE s

\* count elements of elem bytes each
RECURSIVE repeat_from_bytes(_, _, _, _)
repeat_from_bytes(d, o, count, elem) ==
    IF count = 0 THEN Ok(<<>>, o)
    ELSE LET e == slice(d, o, elem)
         IN  IF e.kind # "Ok" THEN e
             ELSE LET rest == repeat_from_bytes(d, e.offset, count - 1, elem)
                  IN  IF rest.kind # "Ok" THEN rest
                      ELSE Ok(<<e.value>> \o rest.value, rest.offset)

\* the field marked #[packet_length], if there is one
MarkerOf(fields) == {i \in 1..Len(fields) : fields[i].marker}

\* one field, given the fields decoded before it (env) and the packet's start
field_from_bytes(f, d, o, base, env, declared, bld) ==
    CASE f.kind = "uint" -> uint_from_bytes(d, o, f.size)
      [] f.kind = "bytes" -> slice(d, o, f.size)
      [] f.kind = "string" /\ f.ref = "" -> string_from_n_bytes(d, o, f.size)
      [] f.kind = "string" /\ f.ref # "" ->
            LET n == SubU16(env[f.ref], f.K, bld)
            IN  IF n.kind # "Ok" THEN Panic(n.error, o)
                ELSE string_from_n_bytes(d, o, n.value)
      [] f.kind = "repeating" -> repeat_from_bytes(d, o, env[f.ref], f.elem)
      [] f.kind = "repeating_remaining" ->
            LET left == (base + declared) - o
            IN  IF declared = 0 - 1 \/ left < 0 \/ left % f.elem # 0
                THEN Err("MalformedLength", o)
                ELSE repeat_from_bytes(d, o, left \div f.elem, f.elem)

RECURSIVE fields_from_bytes(_, _, _, _, _, _, _)
fields_from_bytes(fields, d, o, base, env, declared, bld) ==
    IF fields = <<>> THEN Ok(env, o)
    ELSE LET f == Head(fields)
             r == field_from_bytes(f, d, o, base, env, declared, bld)
         IN  IF r.kind # "Ok" THEN r
             ELSE fields_from_bytes(Tail(fields), d, r.offset, base,
                                    env @@ (f.name :> r.value),
                                    IF f.marker THEN r.value ELSE declared, bld)

\* a structure: every field, and with #[packet_length] exactly that many bytes
struct_from_bytes(schema, d, o, bld) ==
    LET base == o - HeaderSize
        r == fields_from_bytes(schema.fields, d, o, base, <<>>, 0 - 1, bld)
        marked == MarkerOf(schema.fields)
    IN  IF r.kind # "Ok" \/ marked = {} THEN r
        ELSE LET declared == r.value[schema.fields[CHOOSE i \in marked : TRUE].name]
             IN  IF r.offset - base = declared THEN r
                 ELSE Err("MalformedLength", r.offset)

\* UnknownPacket::payload_from_bytes is unimplemented!()
payload_from_bytes(t, d, o, bld) ==
    IF t = "UnknownPacket" THEN Panic("not implemented", o)
    ELSE struct_from_bytes(Packets[t], d, o, bld)

\* the header check dropped
packet_from_bytes_header_Unchecked(t, d, o) ==
    u16_from_bytes(d, o)

\* IncomingPacketExt::packet_from_bytes up to the call of payload_from_bytes
packet_from_bytes_header(t, d, o) ==
    LET header == u16_from_bytes(d, o)
    IN  IF header.kind # "Ok" THEN header
        ELSE IF header.value # Packets[t].header
             THEN Err("mismatched header", header.offset)
             ELSE header

(***************************************************************************)
(* The derived struct encoder: the header, then the fields in declared     *)
(* order.                                                                  *)
(***************************************************************************)
\* a String in n bytes: the text, then zero bytes; a longer text does not fit
string_to_n_bytes(text, n) ==
    IF Len(text) > n THEN Err("TooLong", 0)
    ELSE Ok(text \o [i \in 1..(n - Len(text)) |-> 0], 0)

field_to_bytes(f, v) ==
    CASE f.kind = "uint" -> Ok(ToLE(v, f.size), 0)
      [] f.kind = "bytes" -> Ok(v, 0)
      [] f.kind = "string" /\ f.ref = "" -> string_to_n_bytes(v, f.size)

RECURSIVE fields_to_bytes(_, _)
fields_to_bytes(fields, env) ==
    IF fields = <<>> THEN Ok(<<>>, 0)
    ELSE LET f == field_to_bytes(Head(fields), env[Head(fields).name])
         IN  IF f.kind # "Ok" THEN f
             ELSE LET rest == fields_to_bytes(Tail(fields), env)
                  IN  IF rest.kind # "Ok" THEN rest
                      ELSE Ok(f.value \o rest.value, 0)

\* OutgoingPacket::packet_to_bytes: the header, then the fields
packet_to_bytes(t, env) ==
    LET body == fields_to_bytes(Packets[t].fields, env)
    IN  IF body.kind # "Ok" THEN body
        ELSE Ok(ToLE(Packets[t].header, 2) \o body.value, 0)

(***************************************************************************)
(* SpecItem: an ItemIndex is encoded and the bytes are decoded again, or   *)
(* two received bytes are decoded.                                         *)
(***************************************************************************)
InitItem ==
    /\ build \in Builds
    /\ packet = "ItemIndex"
    /\ offset = 0
    /\ result = NoResult
    /\ \/ /\ pc = "Encode"
          /\ value \in U16
          /\ data = <<>>
       \/ /\ pc = "Decode"
          /\ value = 0
          /\ data \in {ToLE(w, 2) : w \in U16}

ItemIndexToBytes ==
    /\ pc = "Encode"
    /\ packet = "ItemIndex"
    /\ result' = ItemIndex_to_bytes(value, build)
    /\ data' = IF result'.kind = "Ok" THEN result'.value ELSE data
    /\ pc' = IF result'.kind = "Ok" THEN "Encoded" ELSE "EncodeFailed"
    /\ UNCHANGED <<build, offset, packet, value>>

ItemIndexFromBytes ==
    /\ pc \in {"Encoded", "Decode"}
    /\ packet = "ItemIndex"
    /\ result' = ItemIndex_from_bytes(data, offset, build)
    /\ offset' = result'.offset
    /\ pc' = IF pc = "Encoded"
             THEN (IF result'.kind = "Ok" THEN "RoundTrip" ELSE "RoundTripFailed")
             ELSE (IF result'.kind = "Ok" THEN "Decoded" ELSE "DecodeFailed")
    /\ UNCHANGED <<build, data, packet, value>>

NextItem == ItemIndexToBytes \/ ItemIndexFromBytes

SpecItem == InitItem /\ [][NextItem]_vars

\* C3: for every index v in [0, 65533], ItemIndex(v) is encoded as the two
\* little-endian bytes of v + 2, and decoding those bytes gives ItemIndex(v) again.
C3_ItemIndexRoundTrip ==
    (value \in 0..65533) =>
        /\ pc = "Encoded" =>
              /\ result.kind = "Ok"
              /\ data = <<(value + 2) % 256, (value + 2) \div 256>>
        /\ pc # "EncodeFailed"
        /\ pc # "RoundTripFailed"
        /\ pc = "RoundTrip" =>
              /\ result.kind = "Ok"
              /\ result.value = value
              /\ data = <<(value + 2) % 256, (value + 2) \div 256>>
              /\ offset = 2

C3_Witness ==
    /\ pc = "RoundTrip"
    /\ value = 65533
    /\ result.value = 65533
    /\ data = <<255, 255>>

\* C27: ItemIndex arithmetic never wraps around 16 bits: decoding a wire
\* value w gives an error or an index v with v + 2 = w, never a panic and
\* never 65534 or 65535 for the wire values 0 and 1; encoding an index v gives
\* an error or the wire value v + 2, which is at most 65535.
C27_ItemIndexNeverWraps ==
    /\ pc \in {"Decoded", "DecodeFailed"} =>
          \/ result.kind = "Err"
          \/ /\ result.kind = "Ok"
             /\ result.value + 2 = FromLE(data)
    /\ pc \in {"Encoded", "EncodeFailed"} =>
          \/ result.kind = "Err"
          \/ /\ result.kind = "Ok"
             /\ value + 2 <= 65535
             /\ FromLE(result.value) = value + 2

(***************************************************************************)
(* SpecPos: a WorldPosition is encoded and the bytes are decoded again, or *)
(* received bytes are decoded as a WorldPosition or a WorldPosition2.      *)
(***************************************************************************)
CoordSample == {0, 1, 2, 3, 4, 15, 16, 63, 64, 255, 256, 257, 1023, 1024, 4095, 4096, 65535}

ByteSample == {0, 1, 2, 3, 4, 8, 15, 16, 32, 63, 64, 65, 127, 128, 192, 240, 252, 255}

LaneSample == {0, 1, 85, 128, 170, 255}

InitPos ==
    /\ build \in Builds
    /\ offset = 0
    /\ result = NoResult
    /\ \/ /\ pc = "Encode"
          /\ packet = "WorldPosition"
          /\ value \in [x : CoordSample, y : CoordSample]
          /\ data = <<>>
       \/ /\ pc = "Decode"
          /\ packet = "WorldPosition"
          /\ value = [x |-> 0, y |-> 0]
          /\ data \in [1..3 -> ByteSample]
       \/ /\ pc = "Decode"
          /\ packet = "WorldPosition2"
          /\ value = [x |-> 0, y |-> 0]
          /\ data \in [1..6 -> LaneSample]

WorldPositionToBytes ==
    /\ pc = "Encode"
    /\ packet = "WorldPosition"
    /\ result' = WorldPosition_to_bytes(value)
    /\ data' = result'.value
    /\ pc' = "Encoded"
    /\ UNCHANGED <<build, offset, packet, value>>

WorldPositionFromBytes ==
    /\ pc \in {"Encoded", "Decode"}
    /\ packet = "WorldPosition"
    /\ result' = WorldPosition_from_bytes(data, offset)
    /\ offset' = result'.offset
    /\ pc' = IF pc = "Encoded"
             THEN (IF result'.kind = "Ok" THEN "RoundTrip" ELSE "RoundTripFailed")
             ELSE (IF result'.kind = "Ok" THEN "Decoded" ELSE "DecodeFailed")
    /\ UNCHANGED <<build, data, packet, value>>

WorldPosition2FromBytes ==
    /\ pc = "Decode"
    /\ packet = "WorldPosition2"
    /\ result' = WorldPosition2_from_bytes(data, offset)
    /\ offset' = result'.offset
    /\ pc' = IF result'.kind = "Ok" THEN "Decoded" ELSE "DecodeFailed"
    /\ UNCHANGED <<build, data, packet, value>>

NextPos == WorldPositionToBytes \/ WorldPositionFromBytes \/ WorldPosition2FromBytes

SpecPos == InitPos /\ [][NextPos]_vars

\* C4: for all x and y in [0, 4095], decoding the 3 bytes that to_bytes
\* produces for (x, y) gives (x, y) again.
C4_WorldPositionRoundTrip ==
    (pc \in {"RoundTrip", "RoundTripFailed"} /\ value.x \in 0..4095 /\ value.y \in 0..4095) =>
        /\ result.kind = "Ok"
        /\ result.value = value

\* C5: for every 3-byte input, from_bytes returns x = (b1>>6)|(b0<<2) and
\* y = (b2>>4)|((b1&0x3F)<<4) computed over the integers, no bit of b0<<2 or
\* of (b1&0x3F)<<4 lost to an 8-bit intermediate.
C5_WorldPositionDecodeExact ==
    (pc = "Decoded" /\ packet = "WorldPosition") =>
        /\ result.value.x = BitOr(data[2] \div 64, data[1] * 4)
        /\ result.value.y = BitOr(data[3] \div 16, (data[2] % 64) * 16)

(***************************************************************************)
(* SpecEnum: a variant is encoded and the bytes are decoded again, or a    *)
(* received wire value is decoded as an enum or as a StatusType.           *)
(***************************************************************************)
MaxStatusCode == 260

MaxPayload == 13

\* the wire values tried for an enum: around every declared tag, and the extremes
\* (TLC's integers have 32 bits: the values tried keep bit 31 clear)
WireSample(decl) ==
    LET tags == VariantTags(decl)
        top == IF decl.numeric_type = 4 THEN 2147483647 ELSE Pow2(8 * decl.numeric_type) - 1
    IN  {w \in UNION {{tags[i] - 1, tags[i], tags[i] + 1} : i \in 1..Len(tags)}
               \cup {0, 9, 255, 256, top} : w >= 0 /\ w <= top}

InitEnum ==
    /\ build \in Builds
    /\ offset = 0
    /\ result = NoResult
    /\ \/ /\ pc = "Encode"
          /\ packet \in EnumNames
          /\ value \in 1..Len(Enums[packet].variants)
          /\ data = <<>>
       \/ /\ pc = "Decode"
          /\ packet \in EnumNames
          /\ value = 0
          /\ data \in {ToLE(w, Enums[packet].numeric_type) : w \in WireSample(Enums[packet])}
       \/ /\ pc = "Decode"
          /\ packet = "StatusType"
          /\ value = 0
          /\ \E code \in (0..MaxStatusCode) \cup {65535}, n \in 0..MaxPayload :
                data = ToLE(code, 2) \o [i \in 1..n |-> IF i <= 3 THEN i ELSE 0]

EnumToBytes ==
    /\ pc = "Encode"
    /\ result' = enum_to_bytes(Enums[packet], value)
    /\ data' = result'.value
    /\ pc' = "Encoded"
    /\ UNCHANGED <<build, offset, packet, value>>

EnumFromBytes ==
    /\ pc \in {"Encoded", "Decode"}
    /\ packet \in EnumNames
    /\ result' = enum_from_bytes(Enums[packet], data, offset)
    /\ offset' = result'.offset
    /\ pc' = IF pc = "Encoded"
             THEN (IF result'.kind = "Ok" THEN "RoundTrip" ELSE "RoundTripFailed")
             ELSE (IF result'.kind = "Ok" THEN "Decoded" ELSE "DecodeFailed")
    /\ UNCHANGED <<build, data, packet, value>>

StatusTypeFromBytes ==
    /\ pc = "Decode"
    /\ packet = "StatusType"
    /\ result' = StatusType_from_bytes(data, offset)
    /\ offset' = result'.offset
    /\ pc' = IF result'.kind = "Ok" THEN "Decoded" ELSE "DecodeFailed"
    /\ UNCHANGED <<build, data, packet, value>>

NextEnum == EnumToBytes \/ EnumFromBytes \/ StatusTypeFromBytes

SpecEnum == InitEnum /\ [][NextEnum]_vars

\* C6: in every enum no two variants share a tag, so decoding the bytes that
\* encode a variant gives that variant again.
C6_EnumRoundTrip ==
    (pc \in {"RoundTrip", "RoundTripFailed"}) =>
        /\ result.kind = "Ok"
        /\ result.value = value

\* the status codes StatusType::from_bytes lists
ListedStatusCodes ==
    (0..9) \cup (11..18) \cup {20} \cup (22..25) \cup (32..37) \cup (41..53)
        \cup {55, 99} \cup (219..233) \cup (247..252)

\* C7: a wire value that matches no declared tag makes the decode fail with an
\* error, never a default variant: LoginFailedReason accepts only 1, 2 and 8,
\* ExperienceType only 1 and 2, every enum returns only the variant whose tag
\* was read, and StatusType rejects every code outside its table.
C7_UnknownTagFails ==
    (pc \in {"Decoded", "DecodeFailed"}) =>
        /\ result.kind \in {"Ok", "Err"}
        /\ packet = "LoginFailedReason" => (result.kind = "Ok" <=> data[1] \in {1, 2, 8})
        /\ packet = "ExperienceType" => (result.kind = "Ok" <=> FromLE(data) \in {1, 2})
        /\ (packet \in EnumNames /\ result.kind = "Ok") =>
              ToLE(VariantTags(Enums[packet])[result.value], Len(data)) = data
        /\ (packet \in EnumNames /\ result.kind = "Err") =>
              /\ result.error = "UnknownTag"
              /\ \A i \in 1..Len(Enums[packet].variants) :
                    ToLE(VariantTags(Enums[packet])[i], Len(data)) # data
        /\ (packet = "StatusType" /\ FromLE(SubSeq(data, 1, 2)) \notin ListedStatusCodes) =>
              /\ result.kind = "Err"
              /\ result.error = "invalid status code"
        /\ (packet = "StatusType" /\ result.kind = "Ok") =>
              FromLE(SubSeq(data, 1, 2)) \in ListedStatusCodes

C7_Witness ==
    /\ pc = "DecodeFailed"
    /\ packet = "StatusType"
    /\ SubSeq(data, 1, 2) = <<10, 0>>
    /\ Len(data) = 14
    /\ result.kind = "Err"
    /\ result.error = "invalid status code"

(***************************************************************************)
(* Spec: the packet envelope.  packet_from_bytes reads the header of a     *)
(* received stream and, when it is the packet's, decodes the payload.      *)
(***************************************************************************)
MaxText == 3

MaxCount == 2

TextBytes == {0, 65}

Fill(n) == [i \in 1..n |-> 1]

Texts == UNION {[1..n -> TextBytes] : n \in 0..MaxText}

\* what may follow a packet in the same read: nothing, or another packet
Trailing == {<<>>, <<24, 11, 7, 0>>}

\* the bytes of the fixed fields between the length and the trailing string
PrefixWidth(fields) ==
    LET Sum[i \in 0..Len(fields)] ==
            IF i = 0 THEN 0
            ELSE Sum[i - 1] + (IF i > 1 /\ fields[i].kind # "string" THEN fields[i].size ELSE 0)
    IN  Sum[Len(fields)]

\* the bytes after the length field of the packets received as t
Bodies(t) ==
    IF t \in StringPackets
    THEN {Fill(PrefixWidth(Packets[t].fields)) \o text : text \in Texts}
    ELSE IF t = "AchievementListPacket"
    THEN {ToLE(count, 4) \o Fill(14) \o Fill(AchievementData * n) :
              count \in 0..MaxCount, n \in 0..MaxCount}
    ELSE {Fill(n) : n \in 0..MaxText}

\* the tags received: the packet's own, another packet's, and two unregistered ones
Tags(t) == {Packets[t].header, ServerMessagePacket.header, 0, 65535}

Streams(t) ==
    IF t \in StringPackets \cup {"AchievementListPacket"}
    THEN UNION {UNION {{ToLE(tag, 2) \o ToLE(declared, 2) \o body \o rest :
                           declared \in 0..(Len(body) + Len(rest) + 5)} :
                       body \in Bodies(t), rest \in Trailing} : tag \in Tags(t)}
         \cup {<<>>, <<Packets[t].header % 256>>}
    ELSE {ToLE(tag, 2) \o body : tag \in Tags(t), body \in Bodies(t)}
         \cup {<<>>, <<Packets[t].header % 256>>}

Init ==
    /\ build \in Builds
    /\ packet \in PacketNames
    /\ data \in Streams(packet)
    /\ offset = 0
    /\ pc = "AwaitingHeader"
    /\ value = 0
    /\ result = NoResult

\* let header = u16::from_bytes(byte_stream)?; if header != Self::HEADER { return Err }
ReadHeader ==
    /\ pc = "AwaitingHeader"
    /\ LET header == packet_from_bytes_header(packet, data, offset)
       IN  /\ offset' = header.offset
           /\ IF header.kind = "Ok"
              THEN /\ pc' = "DecodingBody"
                   /\ value' = header.value
                   /\ result' = result
              ELSE /\ pc' = "Failed"
                   /\ value' = value
                   /\ result' = header
    /\ UNCHANGED <<build, data, packet>>

\* Self::payload_from_bytes(byte_stream)
DecodePayload ==
    /\ pc = "DecodingBody"
    /\ result' = payload_from_bytes(packet, data, offset, build)
    /\ offset' = result'.offset
    /\ pc' = CASE result'.kind = "Ok" -> "Decoded"
               [] result'.kind = "Err" -> "Failed"
               [] OTHER -> "Panicked"
    /\ UNCHANGED <<build, data, packet, value>>

Next == ReadHeader \/ DecodePayload

Spec == Init /\ [][Next]_vars

\* the tag at the start of the stream and the declared length after it
StreamTag == FromLE(SubSeq(data, 1, 2))

StreamLength == FromLE(SubSeq(data, 3, 4))

Finished == pc \in {"Decoded", "Failed", "Panicked"}


\* the header and every field declared before the trailing string
TrueK(t) == HeaderSize + Packets[t].fields[1].size + PrefixWidth(Packets[t].fields)

\* the K of #[length_hint(self.packet_length - K)], and the field it is on
DeclaredK(t) == Packets[t].fields[Len(Packets[t].fields)].K

StringField(t) == Packets[t].fields[Len(Packets[t].fields)].name

\* C1: a stream whose tag is not registered decodes, without error or panic,
\* to an UnknownPacket that holds the remaining bytes verbatim.
C1_UnknownPassthrough ==
    (packet = "UnknownPacket" /\ Finished /\ Len(data) >= 2
        /\ StreamTag \notin RegisteredHeaders) =>
        /\ pc = "Decoded"
        /\ result.kind = "Ok"
        /\ result.value = SubSeq(data, 3, Len(data))

\* C2: packet_from_bytes reads the 2-byte tag first; a tag other than T::HEADER
\* is a mismatched-header error with no payload byte read, and with the tag of
\* T the result is that of T::payload_from_bytes on the bytes after the tag.
C2_HeaderThenPayload ==
    (pc # "AwaitingHeader" /\ Len(data) >= 2) =>
        /\ StreamTag # Packets[packet].header =>
              /\ pc = "Failed"
              /\ result = Err("mismatched header", 2)
              /\ offset = 2
        /\ StreamTag = Packets[packet].header =>
              /\ pc = "DecodingBody" => (offset = 2 /\ value = StreamTag /\ result = NoResult)
              /\ pc # "DecodingBody" =>
                    LET r == payload_from_bytes(packet, SubSeq(data, 3, Len(data)), 0, build)
                    IN  /\ Finished
                        /\ result.kind = r.kind
                        /\ result.error = r.error
                        /\ result.kind = "Ok" => result.value = r.value
                        /\ result.offset = r.offset + 2
                        /\ offset = result.offset

C2_Witness ==
    /\ pc = "Failed"
    /\ packet = "DialogMenuPacket"
    /\ Len(data) = 13
    /\ StreamTag = ServerMessagePacket.header
    /\ offset = 2
    /\ result.error = "mismatched header"

\* C8: in the packets whose string is packet_length - K bytes long, K is the
\* header plus the fields before the string: when packet_length is the packet's
\* true size the string is reproduced and exactly packet_length bytes are consumed.
C8_StringLengthConsistent ==
    (packet \in StringPackets /\ Finished /\ Len(data) >= 4
        /\ StreamTag = Packets[packet].header
        /\ StreamLength >= TrueK(packet) /\ StreamLength <= Len(data)) =>
        /\ pc = "Decoded"
        /\ result.value[StringField(packet)]
              = TrimPadding(SubSeq(data, TrueK(packet) + 1, StreamLength))
        /\ offset = StreamLength

\* the packets whose first field is their own length
LengthPackets == StringPackets \cup {"AchievementListPacket"}

\* C9: a packet with a self-describing length consumes exactly the declared
\* bytes, header included: a decode that yields a packet value has consumed
\* packet_length bytes, so a packet whose fields take fewer or more bytes
\* than packet_length does not yield a value.
C9_ExactLength ==
    (packet \in LengthPackets /\ Len(data) >= 4 /\ StreamTag = Packets[packet].header
        /\ pc = "Decoded") =>
        offset = StreamLength

\* C10: a packet_length smaller than the header and the fields before the
\* length-derived string is a MalformedLength error: packet_length - K neither
\* wraps around nor aborts the program.
C10_ShortLengthIsMalformed ==
    (packet \in StringPackets /\ Finished /\ Len(data) >= TrueK(packet)
        /\ StreamTag = Packets[packet].header
        /\ StreamLength < DeclaredK(packet)) =>
        /\ pc = "Failed"
        /\ result.error = "MalformedLength"

(***************************************************************************)
(* SpecTruncated: a stream that may end before the value does is decoded   *)
(* as a WorldPosition, a WorldPosition2, an ItemIndex or a StatusType.     *)
(***************************************************************************)
InitTruncated ==
    /\ build \in Builds
    /\ offset = 0
    /\ result = NoResult
    /\ pc = "Decode"
    /\ value = 0
    /\ \/ /\ packet = "WorldPosition"
          /\ data \in UNION {[1..n -> LaneSample] : n \in 0..3}
       \/ /\ packet = "WorldPosition2"
          /\ data \in UNION {[1..n -> {0, 255}] : n \in 0..6}
       \/ /\ packet = "ItemIndex"
          /\ data \in UNION {[1..n -> ByteSample] : n \in 0..2}
       \/ /\ packet = "StatusType"
          /\ \/ data \in {<<>>, <<13>>, <<99>>}
             \/ \E code \in ListedStatusCodes, n \in 0..MaxPayload :
                   data = ToLE(code, 2) \o [i \in 1..n |-> IF i <= 3 THEN i ELSE 0]

NextTruncated ==
    \/ WorldPositionFromBytes
    \/ WorldPosition2FromBytes
    \/ ItemIndexFromBytes
    \/ StatusTypeFromBytes

SpecTruncated == InitTruncated /\ [][NextTruncated]_vars

RECURSIVE PayloadWidth(_)
PayloadWidth(widths) ==
    IF widths = <<>> THEN 0 ELSE Head(widths) + PayloadWidth(Tail(widths))

\* the arm of the status code the stream starts with
StreamArm == StatusTypeArms[CHOOSE i \in StatusArm(FromLE(SubSeq(data, 1, 2))) : TRUE]

\* the bytes the value at the start of the stream occupies
RequiredBytes ==
    CASE packet = "WorldPosition" -> 3
      [] packet = "WorldPosition2" -> 6
      [] packet = "ItemIndex" -> 2
      [] packet = "StatusType" ->
            IF Len(data) < 2 THEN 2
            ELSE IF StatusArm(FromLE(SubSeq(data, 1, 2))) = {} THEN 2
            ELSE 2 + PayloadWidth(StreamArm.payload)

\* C11: a stream with fewer bytes left than the value needs (3 for a
\* WorldPosition, 6 for a WorldPosition2, 2 for an ItemIndex, 2 plus the payload
\* of its code for a StatusType) is decoded to an OutOfBounds error, never to a
\* value and never to a panic.
C11_TruncatedIsOutOfBounds ==
    (pc \in {"Decoded", "DecodeFailed"} /\ Len(data) < RequiredBytes) =>
        /\ pc = "DecodeFailed"
        /\ result.kind = "Err"
        /\ result.error = "OutOfBounds"

C11_Witness ==
    /\ pc = "DecodeFailed"
    /\ packet = "WorldPosition2"
    /\ Len(data) = 5
    /\ result.kind = "Err"
    /\ result.error = "OutOfBounds"

\* C12: a StatusType is decoded whole or not at all: a value carries every
\* field of its code, read from a stream that holds them all, and a failed read
\* of any field (the second u32 of Strength, the last fields of CartInfo) gives
\* an error that carries no value.
C12_AllOrNothing ==
    (pc \in {"Decoded", "DecodeFailed"} /\ packet = "StatusType") =>
        /\ result.kind \in {"Ok", "Err"}
        /\ result.kind = "Ok" =>
              /\ pc = "Decoded"
              /\ result.value.variant = StreamArm.variant
              /\ Len(result.value.fields) = Len(StreamArm.payload)
              /\ Len(data) >= 2 + PayloadWidth(StreamArm.payload)
              /\ offset = 2 + PayloadWidth(StreamArm.payload)
        /\ result.kind = "Err" =>
              /\ pc = "DecodeFailed"
              /\ result.value = <<>>

C12_Witness ==
    /\ pc = "DecodeFailed"
    /\ packet = "StatusType"
    /\ Len(data) = 10
    /\ SubSeq(data, 1, 2) = <<99, 0>>
    /\ result.kind = "Err"
    /\ result.value = <<>>

(***************************************************************************)
(* SpecConcat: one read holds several packets, one after the other, and    *)
(* packet_from_bytes is called for each of them in turn.                   *)
(***************************************************************************)
MaxPackets == 3

ListPackets == {"FriendListPacket", "RequestCharacterListSuccessPacket"}

\* the packets a peer sends: a type and, for a list, its number of elements
Sendable ==
    [packet : ListPackets, count : 0..MaxCount] \cup [packet : {"Packet180b"}, count : {0}]

\* the element size of a list packet
ElementSize(t) == Packets[t].fields[Len(Packets[t].fields)].elem

\* the bytes of the k-th packet sent: its elements are filled with k
PacketBytes(p, k) ==
    IF p.packet \in ListPackets
    THEN ToLE(Packets[p.packet].header, 2)
            \o ToLE(4 + p.count * ElementSize(p.packet), 2)
            \o [i \in 1..(p.count * ElementSize(p.packet)) |-> k]
    ELSE ToLE(Packets[p.packet].header, 2) \o <<k, k>>

\* the bytes of the first n packets sent
StreamOf(sent, n) ==
    LET Cat[i \in 0..n] == IF i = 0 THEN <<>> ELSE Cat[i - 1] \o PacketBytes(sent[i], i)
    IN  Cat[n]

InitConcat ==
    /\ build \in Builds
    /\ offset = 0
    /\ pc = "Receiving"
    /\ packet = "none"
    /\ result = NoResult
    /\ \E n \in 1..MaxPackets : \E sent \in [1..n -> Sendable] :
          /\ value = [sent |-> sent, received |-> <<>>]
          /\ data = StreamOf(sent, n)

\* packet_from_bytes of the next packet's type, at the stream's offset
PacketFromBytes ==
    /\ pc = "Receiving"
    /\ LET t == value.sent[Len(value.received) + 1].packet
           header == packet_from_bytes_header(t, data, offset)
           r == IF header.kind = "Ok"
                THEN payload_from_bytes(t, data, header.offset, build)
                ELSE header
       IN  /\ packet' = t
           /\ result' = r
           /\ offset' = r.offset
           /\ value' = IF r.kind = "Ok"
                       THEN [value EXCEPT !.received =
                                Append(@, [packet |-> t, fields |-> r.value, end |-> r.offset])]
                       ELSE value
           /\ pc' = IF r.kind # "Ok" THEN "Failed"
                    ELSE IF Len(value.received) + 1 = Len(value.sent) THEN "Drained"
                    ELSE "Receiving"
    /\ UNCHANGED <<build, data>>

NextConcat == PacketFromBytes

SpecConcat == InitConcat /\ [][NextConcat]_vars

\* C13: when one buffer holds several packets, a packet with #[packet_length]
\* that ends in a #[repeating_remaining] field is decoded up to its start plus
\* its packet_length, not up to the end of the buffer: the offset is left on the
\* first byte of the next packet, and the packets decoded one after the other
\* are the packets sent, in order, each with its own elements.
C13_ConcatenatedInOrder ==
    /\ pc # "Failed"
    /\ offset = Len(StreamOf(value.sent, Len(value.received)))
    /\ \A i \in 1..Len(value.received) :
          LET sent == value.sent[i]
              got == value.received[i]
          IN  /\ got.packet = sent.packet
              /\ got.end = Len(StreamOf(value.sent, i))
              /\ sent.packet \in ListPackets =>
                    LET list == got.fields[Packets[sent.packet].fields[2].name]
                    IN  /\ Len(list) = sent.count
                        /\ \A j \in 1..Len(list) :
                              list[j] = [b \in 1..ElementSize(sent.packet) |-> i]

C13_Witness ==
    /\ pc = "Drained"
    /\ Len(value.sent) = 3
    /\ value.sent[1] = [packet |-> "FriendListPacket", count |-> 2]
    /\ value.sent[2] = [packet |-> "RequestCharacterListSuccessPacket", count |-> 1]
    /\ value.sent[3] = [packet |-> "FriendListPacket", count |-> 1]
    /\ Len(value.received) = 3
    /\ Len(value.received[1].fields["friends"]) = 2
    /\ value.received[1].end = 68
    /\ offset = Len(data)

(***************************************************************************)
(* SpecString: a packet with a String of constant length is encoded, and   *)
(* the String is read back from its bytes.                                 *)
(***************************************************************************)
\* the hints of the two packets, by packet: 24 for a name, 40 for an email
HintPackets == {"CreateCharacterPacket", "DeleteCharacterPacket"}

\* the position of the String among the fields, and the bytes before it
StringIndex(t) == CHOOSE i \in 1..Len(Packets[t].fields) : Packets[t].fields[i].kind = "string"

WidthBefore(fields, n) ==
    LET Sum[i \in 0..n] == IF i = 0 THEN 0 ELSE Sum[i - 1] + fields[i].size
    IN  Sum[n]

\* the texts encoded: of every length up to one more than the longest hint
HintTexts == {[i \in 1..n |-> 65 + (i % 2)] : n \in 0..41}

\* a value of packet t whose String is text
ValueOf(t, text) ==
    [n \in {Packets[t].fields[i].name : i \in 1..Len(Packets[t].fields)} |->
        LET f == Packets[t].fields[CHOOSE i \in 1..Len(Packets[t].fields) :
                                       Packets[t].fields[i].name = n]
        IN  CASE f.kind = "string" -> text
              [] f.kind = "uint" -> 1
              [] f.kind = "bytes" -> [i \in 1..f.size |-> 2]]

InitString ==
    /\ build \in Builds
    /\ packet \in HintPackets
    /\ offset = 0
    /\ pc = "Encode"
    /\ result = NoResult
    /\ data = <<>>
    /\ \E text \in HintTexts : value = ValueOf(packet, text)

\* OutgoingPacket::packet_to_bytes
PacketToBytes ==
    /\ pc = "Encode"
    /\ result' = packet_to_bytes(packet, value)
    /\ data' = IF result'.kind = "Ok" THEN result'.value ELSE data
    /\ offset' = IF result'.kind = "Ok"
                 THEN HeaderSize + WidthBefore(Packets[packet].fields, StringIndex(packet) - 1)
                 ELSE offset
    /\ pc' = IF result'.kind = "Ok" THEN "Encoded" ELSE "EncodeFailed"
    /\ UNCHANGED <<build, packet, value>>

\* String::from_n_bytes at the String's bytes
StringFromNBytes ==
    /\ pc = "Encoded"
    /\ result' = string_from_n_bytes(data, offset, Packets[packet].fields[StringIndex(packet)].size)
    /\ offset' = result'.offset
    /\ pc' = IF result'.kind = "Ok" THEN "RoundTrip" ELSE "RoundTripFailed"
    /\ UNCHANGED <<build, data, packet, value>>

NextString == PacketToBytes \/ StringFromNBytes

SpecString == InitString /\ [][NextString]_vars

\* the String of the value being encoded, its hint and where its bytes start
TextOf == value[Packets[packet].fields[StringIndex(packet)].name]

HintOf == IF packet = "CreateCharacterPacket" THEN 24 ELSE 40

StartOf == IF packet = "CreateCharacterPacket" THEN 2 ELSE 6

\* C15: a String with a constant length hint L (24 for the name of
\* CreateCharacterPacket, 40 for the email of DeleteCharacterPacket) is encoded
\* as exactly L bytes, the text followed by zero bytes, and the encoding fails
\* when the text is longer than L; decoding reads exactly L bytes and returns
\* the text without the zero bytes.
C15_ConstantLengthString ==
    /\ pc = "EncodeFailed" => (Len(TextOf) > HintOf /\ result.kind = "Err")
    /\ pc \in {"Encoded", "RoundTrip"} =>
          /\ Len(TextOf) <= HintOf
          /\ Len(data) = (IF packet = "CreateCharacterPacket" THEN 36 ELSE 56)
          /\ SubSeq(data, StartOf + 1, StartOf + HintOf)
                = TextOf \o [i \in 1..(HintOf - Len(TextOf)) |-> 0]
    /\ pc # "RoundTripFailed"
    /\ pc = "RoundTrip" =>
          /\ result.value = TextOf
          /\ offset = StartOf + HintOf

C15_Witness ==
    /\ pc = "RoundTrip"
    /\ packet = "DeleteCharacterPacket"
    /\ Len(TextOf) = 39
    /\ result.value = TextOf
    /\ data[46] = 0
    /\ offset = 46

(***************************************************************************)
(* SpecSchema: the derive goes through the fields of a declaration in      *)
(* declared order, each field seeing the fields before it.                 *)
(***************************************************************************)
\* the declarations with a derived codec (UnknownPacket's is written by hand)
DeclarationNames == ((DOMAIN Packets) \ {"UnknownPacket"}) \cup Substructures

Declaration(t) == IF t \in Substructures THEN Structs[t] ELSE Packets[t]

InitSchema ==
    /\ build \in Builds
    /\ packet \in DeclarationNames
    /\ offset = 0
    /\ pc = "Deriving"
    /\ value = <<>>
    /\ data = <<>>
    /\ result = NoResult

\* the next field of the declaration: its attributes, and its name made known
\* to the fields after it
DeriveField ==
    /\ pc = "Deriving"
    /\ offset < Len(Declaration(packet).fields)
    /\ offset' = offset + 1
    /\ result' = Ok(Declaration(packet).fields[offset + 1], offset + 1)
    /\ value' = Append(value, Declaration(packet).fields[offset + 1].name)
    /\ pc' = IF offset + 1 = Len(Declaration(packet).fields) THEN "Derived" ELSE "Deriving"
    /\ UNCHANGED <<build, data, packet>>

NextSchema == DeriveField

SpecSchema == InitSchema /\ [][NextSchema]_vars

\* C16: a field marked #[packet_length] is the first field of a packet and is
\* the packet's length; it is never another value, such as an identifier, and
\* never a field of a substructure.
C16_MarkedFieldIsPacketLength ==
    (result.kind = "Ok" /\ result.value.marker) =>
        /\ offset = 1
        /\ packet \notin Substructures
        /\ result.value.name = "packet_length"

\* C20: the expression of a length hint or of a repeat count (packet_length - K,
\* acheivement_count, objective_count, quest_count, aliance_count,
\* antagonist_count) names a field declared, and so decoded, strictly before
\* the field that carries it.
C20_HintsReferToEarlierFields ==
    (result.kind = "Ok" /\ result.value.ref # "") =>
        \E i \in 1..(offset - 1) : value[i] = result.value.ref

C20_Witness ==
    /\ packet = "ClanInfoPacket"
    /\ offset = 9
    /\ result.value.name = "antagonists"
    /\ result.value.ref = "antagonist_count"
    /\ value[7] = "antagonist_count"

(***************************************************************************)
(* SpecCursor: reads follow one another on one stream, each starting where *)
(* the one before it stopped, whether that one succeeded or failed.        *)
(***************************************************************************)
MaxBuffer == 8

MaxRead == 4

InitCursor ==
    /\ build \in Builds
    /\ packet = "ByteStream"
    /\ offset = 0
    /\ pc = "Reading"
    /\ value = [op |-> "none", before |-> 0, n |-> 0]
    /\ result = NoResult
    /\ \E len \in 0..MaxBuffer, b \in {0, 3} : data = [i \in 1..len |-> b]

\* byte_stream.slice(n)
ReadSlice ==
    /\ pc = "Reading"
    /\ \E n \in 0..MaxRead :
          /\ result' = slice(data, offset, n)
          /\ value' = [op |-> "slice", before |-> offset, n |-> n]
    /\ offset' = result'.offset
    /\ UNCHANGED <<build, data, pc, packet>>

ReadWorldPosition ==
    /\ pc = "Reading"
    /\ result' = WorldPosition_from_bytes(data, offset)
    /\ value' = [op |-> "WorldPosition", before |-> offset, n |-> 3]
    /\ offset' = result'.offset
    /\ UNCHANGED <<build, data, pc, packet>>

ReadWorldPosition2 ==
    /\ pc = "Reading"
    /\ result' = WorldPosition2_from_bytes(data, offset)
    /\ value' = [op |-> "WorldPosition2", before |-> offset, n |-> 6]
    /\ offset' = result'.offset
    /\ UNCHANGED <<build, data, pc, packet>>

\* a panic ends the program: nothing is read after it
ReadItemIndex ==
    /\ pc = "Reading"
    /\ result' = ItemIndex_from_bytes(data, offset, build)
    /\ value' = [op |-> "ItemIndex", before |-> offset, n |-> 2]
    /\ offset' = result'.offset
    /\ pc' = IF result'.kind = "Panic" THEN "Panicked" ELSE pc
    /\ UNCHANGED <<build, data, packet>>

\* byte_stream.remaining_len(): nothing is read
RemainingLen ==
    /\ pc = "Reading"
    /\ result' = Ok(remaining_len(data, offset), offset)
    /\ value' = [op |-> "remaining_len", before |-> offset, n |-> 0]
    /\ UNCHANGED <<build, data, offset, pc, packet>>

NextCursor ==
    \/ ReadSlice
    \/ ReadWorldPosition
    \/ ReadWorldPosition2
    \/ ReadItemIndex
    \/ RemainingLen

SpecCursor == InitCursor /\ [][NextCursor]_vars

\* C17: after any sequence of reads, failed ones included, the offset lies
\* between 0 and the length of the buffer; a read of n bytes with n bytes left
\* moves the offset by exactly n, a read with fewer bytes left fails with
\* OutOfBounds and moves nothing, and remaining_len() is the length of the
\* buffer less the offset.
C17_CursorInvariant ==
    /\ 0 <= offset
    /\ offset <= Len(data)
    /\ result.kind = "Ok" =>
          /\ value.before + value.n <= Len(data)
          /\ offset = value.before + value.n
    /\ result.kind = "Err" =>
          /\ result.error = "OutOfBounds"
          /\ value.before + value.n > Len(data)
          /\ offset = value.before
    /\ (value.op # "none" /\ value.before + value.n > Len(data)) => result.kind = "Err"
    /\ value.op = "remaining_len" => result.value = Len(data) - offset

C17_Witness ==
    /\ result.kind = "Err"
    /\ result.error = "OutOfBounds"
    /\ value.op = "WorldPosition2"
    /\ Len(data) = 8
    /\ value.before = 5
    /\ offset = 5

\* the enums declared with #[numeric_type(u16)] and with #[numeric_type(u32)]
U16Enums ==
    {"SwitchCharacterSlotResponseStatus", "HealType", "ExperienceType", "ExperienceSource",
     "RemoveItemReason", "QuestEffect", "QuestColor", "DisconnectResponseStatus",
     "FriendRequestResult"}

U32Enums ==
    {"SkillType", "MarkerType", "VisualEffect", "EquipPosition", "UnitId",
     "FriendRequestResponse"}

WidthOf(enum) == IF enum \in U16Enums THEN 2 ELSE IF enum \in U32Enums THEN 4 ELSE 1

\* C18: an enum is written and read in exactly the bytes of its numeric type,
\* little endian: one byte without #[numeric_type] (Sex, Action), two bytes
\* with #[numeric_type(u16)] (SwitchCharacterSlotResponseStatus, HealType), four
\* bytes with #[numeric_type(u32)] (SkillType, EquipPosition, UnitId).
C18_EnumWidth ==
    (packet \in EnumNames) =>
        /\ WidthOf("Sex") = 1 /\ WidthOf("Action") = 1
        /\ pc \in {"Encoded", "RoundTrip", "RoundTripFailed"} =>
              /\ Len(data) = WidthOf(packet)
              /\ FromLE(data) = VariantTags(Enums[packet])[value]
        /\ pc \in {"RoundTrip", "RoundTripFailed", "Decoded", "DecodeFailed"} =>
              /\ offset = WidthOf(packet)
              /\ result.kind = "Ok" =>
                    VariantTags(Enums[packet])[result.value] = FromLE(SubSeq(data, 1, WidthOf(packet)))

C18_Witness ==
    /\ pc = "RoundTrip"
    /\ packet = "SkillType"
    /\ value = 6
    /\ data = <<32, 0, 0, 0>>
    /\ offset = 4
    /\ result.value = 6

\* C19: the envelope is the state machine AwaitingHeader -> DecodingBody ->
\* Decoded | Failed: a decode is in one of these four states and ends in
\* Decoded or in Failed; DecodingBody is entered only after the two bytes of
\* the tag have been read; a failure in AwaitingHeader or in DecodingBody leads
\* to Failed, where an error is returned, and Decoded holds a value.
C19_EnvelopeStateMachine ==
    /\ pc \in {"AwaitingHeader", "DecodingBody", "Decoded", "Failed"}
    /\ pc = "DecodingBody" =>
          /\ Len(data) >= 2
          /\ offset = 2
          /\ value = StreamTag
    /\ pc = "Failed" => result.kind = "Err"
    /\ pc = "Decoded" => result.kind = "Ok"
    /\ result.kind \in {"None", "Ok", "Err"}

\* C21: a field declared #[repeating_remaining] is the last field of its
\* struct, and the struct is a packet with a #[packet_length] field declared
\* before it, so the repetition ends where the declared length ends.
C21_RepeatingRemainingIsLast ==
    (result.kind = "Ok" /\ result.value.kind = "repeating_remaining") =>
        /\ pc = "Derived"
        /\ offset = Len(Declaration(packet).fields)
        /\ packet \notin Substructures
        /\ \E i \in 1..(offset - 1) : Declaration(packet).fields[i].marker

C21_Witness ==
    /\ pc = "Derived"
    /\ packet = "LoginServerLoginSuccessPacket"
    /\ offset = 10
    /\ result.value.kind = "repeating_remaining"
    /\ result.value.name = "character_server_information"
    /\ Declaration(packet).fields[1].marker

(***************************************************************************)
(* SpecCanonical: a WorldPosition or an ItemIndex of any magnitude is      *)
(* encoded.                                                                *)
(***************************************************************************)
IndexSample == {0, 1, 2, 253, 254, 255, 256, 4095, 32767, 32768, 65533, 65534, 65535}

InitCanonical ==
    /\ build \in Builds
    /\ offset = 0
    /\ pc = "Encode"
    /\ data = <<>>
    /\ result = NoResult
    /\ \/ /\ packet = "WorldPosition"
          /\ value \in [x : CoordSample, y : CoordSample]
       \/ /\ packet = "ItemIndex"
          /\ value \in IndexSample

NextCanonical == WorldPositionToBytes \/ ItemIndexToBytes

SpecCanonical == InitCanonical /\ [][NextCanonical]_vars

\* C22: encoding gives the fixed width whatever the magnitude of the value:
\* WorldPosition::to_bytes returns exactly 3 bytes for every (x, y), also above
\* the range the bytes can hold, and ItemIndex::to_bytes returns exactly 2 bytes
\* whenever it succeeds.
C22_CanonicalWidth ==
    /\ (packet = "WorldPosition" /\ pc # "Encode") =>
          /\ pc = "Encoded"
          /\ result.kind = "Ok"
          /\ Len(data) = 3
          /\ \A i \in 1..3 : data[i] \in 0..255
    /\ (packet = "ItemIndex" /\ pc = "Encoded") =>
          /\ result.kind = "Ok"
          /\ Len(data) = 2
          /\ \A i \in 1..2 : data[i] \in 0..255

C22_Witness ==
    /\ pc = "Encoded"
    /\ packet = "WorldPosition"
    /\ value = [x |-> 65535, y |-> 4096]
    /\ data = <<255, 192, 0>>

\* C23: the double position is read as the position is: for every 6 bytes, the
\* (x1, y1) of WorldPosition2::from_bytes is the (x, y) that
\* WorldPosition::from_bytes returns for the first 3 of them.
C23_DoublePositionAnalogous ==
    (pc = "Decoded" /\ packet = "WorldPosition2") =>
        LET single == WorldPosition_from_bytes(SubSeq(data, 1, 3), 0)
        IN  /\ single.kind = "Ok"
            /\ result.value.x1 = single.value.x
            /\ result.value.y1 = single.value.y

\* the five bytes whose 40 bits are the four 10-bit coordinates, x1 first
FiveBytesOf(p) ==
    << p.x1 \div 4,
       (p.x1 % 4) * 64 + p.y1 \div 16,
       (p.y1 % 16) * 16 + p.x2 \div 64,
       (p.x2 % 64) * 4 + p.y2 \div 256,
       p.y2 % 256 >>

\* C28: for every 6 bytes, WorldPosition2::from_bytes returns x1, y1, x2 and y2
\* in [0, 1023]; the result is that of the same first five bytes followed by
\* any other sixth byte, and the first five bytes are recovered from it, so
\* that inputs differing in their first five bytes decode differently.
C28_DoublePositionBits ==
    (pc \in {"Decoded", "DecodeFailed"} /\ packet = "WorldPosition2") =>
        /\ pc = "Decoded"
        /\ result.value.x1 \in 0..1023
        /\ result.value.y1 \in 0..1023
        /\ result.value.x2 \in 0..1023
        /\ result.value.y2 \in 0..1023
        /\ \A sixth \in LaneSample :
              WorldPosition2_from_bytes(SubSeq(data, 1, 5) \o <<sixth>>, 0).value = result.value
        /\ FiveBytesOf(result.value) = SubSeq(data, 1, 5)

C28_Witness ==
    /\ pc = "Decoded"
    /\ packet = "WorldPosition2"
    /\ data = <<170, 85, 170, 85, 255, 128>>
    /\ result.value = [x1 |-> 681, y1 |-> 346, x2 |-> 661, y2 |-> 511]

(***************************************************************************)
(* SpecStatus: an UpdateStatus packet is received, its status value        *)
(* filling the region its length hint gives, and the value is read.        *)
(***************************************************************************)
UpdateStatusPackets ==
    {"UpdateStatusPacket", "UpdateStatusPacket1", "UpdateStatusPacket2", "UpdateStatusPacket3"}

\* the bytes the packet gives to its status value
RegionOf(t) == Packets[t].fields[1].size

InitStatus ==
    /\ build \in Builds
    /\ packet \in UpdateStatusPackets
    /\ offset = 0
    /\ pc = "Decode"
    /\ value = 0
    /\ result = NoResult
    /\ \E code \in ListedStatusCodes :
          data = ToLE(Packets[packet].header, 2) \o ToLE(code, 2)
                    \o [i \in 1..(RegionOf(packet) - 2) |-> IF i <= 3 THEN i ELSE 0]

\* the header, then StatusType::from_bytes on the region
StatusFieldFromBytes ==
    /\ pc = "Decode"
    /\ LET header == packet_from_bytes_header(packet, data, offset)
       IN  result' = IF header.kind = "Ok"
                     THEN StatusType_from_bytes(data, header.offset)
                     ELSE header
    /\ offset' = result'.offset
    /\ pc' = IF result'.kind = "Ok" THEN "Decoded" ELSE "DecodeFailed"
    /\ UNCHANGED <<build, data, packet, value>>

NextStatus == StatusFieldFromBytes

SpecStatus == InitStatus /\ [][NextStatus]_vars

\* the payload of the codes each packet carries: one u32, two u32, one u64, one u8
PayloadOf(t) ==
    CASE t = "UpdateStatusPacket" -> <<4>>
      [] t = "UpdateStatusPacket1" -> <<4, 4>>
      [] t = "UpdateStatusPacket2" -> <<8>>
      [] t = "UpdateStatusPacket3" -> <<1>>

\* C24: the region an UpdateStatus packet gives to its status value is what
\* StatusType::from_bytes consumes for the codes the packet carries: 6 bytes
\* for a u32 code in UpdateStatusPacket, 12 for a code of two u32 in
\* UpdateStatusPacket1, 10 for a u64 code in UpdateStatusPacket2, 3 for a u8
\* code in UpdateStatusPacket3.
C24_StatusRegionMatches ==
    (pc \in {"Decoded", "DecodeFailed"}
        /\ StatusTypeArms[CHOOSE i \in StatusArm(FromLE(SubSeq(data, 3, 4))) : TRUE].payload
              = PayloadOf(packet)) =>
        /\ pc = "Decoded"
        /\ offset - HeaderSize = RegionOf(packet)
        /\ offset = Len(data)

(***************************************************************************)
(* SpecMesh: ModelLoader::make_vertices builds the vertices of a node and  *)
(* hands them to split_disconnected_meshes.  A position is <<x, y, z>> in  *)
(* units of one half, so that vertices closer than 1.0 without being equal *)
(* exist; a vertex is its position and its texture index, the normal, the  *)
(* texture coordinates, the colour and the wind affinity are left out.     *)
(***************************************************************************)
MaxFaces == 3

\* const EPSILON: f32 = 1.0, in units of one half
EPSILON == 2

Abs(n) == IF n < 0 THEN 0 - n ELSE n

NativeModelVertex(position, texture_index) ==
    [position |-> position, texture_index |-> texture_index]

SubMesh(transparent, native_vertices) ==
    [transparent |-> transparent, native_vertices |-> native_vertices]

\* slice::chunks_exact(n): the full chunks, the remainder dropped
chunks_exact(s, n) ==
    [i \in 1..(Len(s) \div n) |-> SubSeq(s, (i - 1) * n + 1, i * n)]

\* the closure `shares_vertex` with any axis in place of every axis
shares_vertex_AnyAxis(triangle1, triangle2) ==
    \E i \in 1..Len(triangle1), j \in 1..Len(triangle2) :
        \/ Abs(triangle1[i].position[1] - triangle2[j].position[1]) < EPSILON
        \/ Abs(triangle1[i].position[2] - triangle2[j].position[2]) < EPSILON
        \/ Abs(triangle1[i].position[3] - triangle2[j].position[3]) < EPSILON

shares_vertex(triangle1, triangle2) ==
    \E i \in 1..Len(triangle1), j \in 1..Len(triangle2) :
        /\ Abs(triangle1[i].position[1] - triangle2[j].position[1]) < EPSILON
        /\ Abs(triangle1[i].position[2] - triangle2[j].position[2]) < EPSILON
        /\ Abs(triangle1[i].position[3] - triangle2[j].position[3]) < EPSILON

\* Step 2: the adjacency map; a triangle without an entry has no neighbours
adjacency(triangles) ==
    [triangle1_index \in 1..Len(triangles) |->
        {triangle2_index \in 1..Len(triangles) :
            /\ triangle1_index # triangle2_index
            /\ shares_vertex(triangles[triangle1_index], triangles[triangle2_index])}]

\* the orders in which a HashSet may hand out its elements: the hasher is
\* seeded at random, so every order of the elements is one
IterationOf(set) ==
    {s \in [1..Cardinality(set) -> set] :
        \A i, j \in 1..Cardinality(set) : i # j => s[i] # s[j]}

\* the `while let Some(current) = stack.pop()` loop: the outcomes it can have,
\* one for every order in which the neighbours are pushed
RECURSIVE depth_first_search(_, _, _, _, _)
depth_first_search(triangles, neighbors, stack, visited, native_vertices) ==
    IF stack = <<>>
    THEN {[visited |-> visited, native_vertices |-> native_vertices]}
    ELSE LET current == stack[Len(stack)]
             popped == SubSeq(stack, 1, Len(stack) - 1)
         IN  IF current \in visited
             THEN depth_first_search(triangles, neighbors, popped, visited, native_vertices)
             ELSE UNION {depth_first_search(triangles, neighbors, popped \o pushed,
                                            visited \cup {current},
                                            native_vertices \o triangles[current]) :
                           pushed \in IterationOf({index \in neighbors[current] :
                                                      index \notin visited \cup {current}})}

\* Step 3: the `for triangle_index in 0..triangles.len()` loop (indices from 1
\* here): the lists of submeshes it can end with
RECURSIVE find_connected(_, _, _, _, _)
find_connected(triangles, neighbors, triangle_index, visited, submeshes) ==
    IF triangle_index > Len(triangles)
    THEN {submeshes}
    ELSE IF triangle_index \in visited
    THEN find_connected(triangles, neighbors, triangle_index + 1, visited, submeshes)
    ELSE UNION {find_connected(triangles, neighbors, triangle_index + 1, found.visited,
                               Append(submeshes, SubMesh(TRUE, found.native_vertices))) :
                  found \in depth_first_search(triangles, neighbors, <<triangle_index>>,
                                               visited, <<>>)}

\* texture_transparency[vertex.texture_index as usize], indices from 0
IsTransparent(vertex, texture_transparency) ==
    texture_transparency[vertex.texture_index + 1]

\* the lists of submeshes split_disconnected_meshes can return
split_disconnected_meshes(vertices, texture_transparency) ==
    LET transparent_vertices ==
            SelectSeq(vertices, LAMBDA vertex : IsTransparent(vertex, texture_transparency))
        opaque_vertices ==
            SelectSeq(vertices, LAMBDA vertex : ~IsTransparent(vertex, texture_transparency))
        triangles == chunks_exact(transparent_vertices, 3)
    IN  find_connected(triangles, adjacency(triangles), 1, {},
                       <<SubMesh(FALSE, opaque_vertices)>>)

\* an affine Matrix4 as its first three rows; the point has w = 1
multiply_matrix4_and_point3(matrix, point) ==
    [i \in 1..3 |-> matrix[i][1] * point[1] + matrix[i][2] * point[2]
                       + matrix[i][3] * point[3] + matrix[i][4]]

\* add_vertices: the three vertices of a face, last first when reversed;
\* reverse_normal turns the normal only
add_vertices(native_vertices, vertex_positions, texture_index, reverse_vertices, reverse_normal) ==
    native_vertices \o
        [i \in 1..3 |-> NativeModelVertex(
                            vertex_positions[IF reverse_vertices THEN 4 - i ELSE i],
                            texture_index)]

\* the `for face in &node.faces` loop of make_vertices
RECURSIVE face_vertices(_, _, _)
face_vertices(faces, main_matrix, reverse_order) ==
    IF faces = <<>>
    THEN <<>>
    ELSE LET face == faces[Len(faces)]
             vertex_positions ==
                 [i \in 1..3 |-> multiply_matrix4_and_point3(main_matrix, face.positions[i])]
             before == face_vertices(SubSeq(faces, 1, Len(faces) - 1), main_matrix, reverse_order)
             one_side == add_vertices(before, vertex_positions, face.texture_index,
                                      reverse_order, FALSE)
         IN  IF face.two_sided # 0
             THEN add_vertices(one_side, vertex_positions, face.texture_index,
                               ~reverse_order, TRUE)
             ELSE one_side

\* the results make_vertices can have; node.scale is <<>> for None, and the
\* sign of the product of the scale is negative when the sign bits of its
\* three numbers add up to an odd number
make_vertices(node, main_matrix, reverse_order, texture_transparency) ==
    IF node.scale = <<>>
    THEN {Panic("called Option::unwrap() on a None value", 0)}
    ELSE LET reverse_node_order ==
                 Cardinality({i \in 1..3 : node.scale[i] < 0}) % 2 = 1
             native_vertices == face_vertices(node.faces, main_matrix, reverse_order)
         IN  IF reverse_node_order
             THEN {Panic("this can actually happen", 0)}
             ELSE IF \A i \in 1..Len(texture_transparency) : ~texture_transparency[i]
             THEN {Ok(<<SubMesh(FALSE, native_vertices)>>, 0)}
             ELSE IF \E i \in 1..Len(native_vertices) :
                        native_vertices[i].texture_index >= Len(texture_transparency)
             THEN {Panic("index out of bounds", 0)}
             ELSE {Ok(submeshes, 0) :
                      submeshes \in split_disconnected_meshes(native_vertices, texture_transparency)}

\* the faces of the nodes: corner positions, texture index, two_sided
Face(positions, texture_index, two_sided) ==
    [positions |-> positions, texture_index |-> texture_index, two_sided |-> two_sided]

\* the second face has two corners in one place, so that its two sides are
\* the same triangle twice
FaceSample ==
    { Face(<< <<0, 0, 0>>, <<2, 0, 0>>, <<0, 2, 0>> >>, 1, 0),
      Face(<< <<3, 0, 0>>, <<5, 0, 0>>, <<3, 0, 0>> >>, 1, 1),
      Face(<< <<6, 0, 0>>, <<8, 0, 0>>, <<6, 2, 0>> >>, 1, 0),
      Face(<< <<0, 4, 0>>, <<2, 4, 0>>, <<0, 6, 0>> >>, 1, 0),
      Face(<< <<0, 0, 0>>, <<2, 0, 0>>, <<0, 2, 0>> >>, 0, 1) }

\* no scale, and scales whose product is positive, negative, and minus zero
ScaleSample == {<<>>, <<-1, -1, 1>>, <<-1, 1, 1>>, <<0, -1, 1>>}

\* the identity and a translation
MatrixSample ==
    { << <<1, 0, 0, 0>>, <<0, 1, 0, 0>>, <<0, 0, 1, 0>> >>,
      << <<1, 0, 0, 1>>, <<0, 1, 0, 0>>, <<0, 0, 1, -3>> >> }

InitMesh ==
    /\ build \in Builds
    /\ packet = "NodeData"
    /\ offset = 0
    /\ pc = "MakingVertices"
    /\ result = NoResult
    /\ data = <<>>
    /\ \E n \in 0..MaxFaces : \E faces \in [1..n -> FaceSample] :
          /\ \A i, j \in 1..n : i # j => faces[i] # faces[j]
          /\ value \in [node : [faces : {faces}, scale : ScaleSample],
                        main_matrix : MatrixSample,
                        reverse_order : BOOLEAN,
                        texture_transparency : {<<FALSE, FALSE>>, <<FALSE, TRUE>>, <<TRUE, TRUE>>}]

\* make_vertices; data keeps the vertices that were built
MakeVertices ==
    /\ pc = "MakingVertices"
    /\ packet = "NodeData"
    /\ \E outcome \in make_vertices(value.node, value.main_matrix, value.reverse_order,
                                    value.texture_transparency) :
          /\ result' = outcome
          /\ pc' = IF outcome.kind = "Panic" THEN "ScalePanicked"
                   ELSE IF \E i \in 1..2 : value.texture_transparency[i] THEN "Split"
                   ELSE "Unsplit"
          /\ data' = IF outcome.kind = "Panic" THEN data
                     ELSE face_vertices(value.node.faces, value.main_matrix, value.reverse_order)
    /\ UNCHANGED <<build, offset, packet, value>>

NextMesh == MakeVertices

SpecMesh == InitMesh /\ [][NextMesh]_vars

\* positions closer than 1.0 on every axis
CloserThanOne(p, q) ==
    \A axis \in 1..3 : p[axis] - q[axis] < EPSILON /\ q[axis] - p[axis] < EPSILON

Linked(t1, t2) ==
    \E i, j \in 1..3 : CloserThanOne(t1[i].position, t2[j].position)

\* the triangles a chain of linked triangles of all reaches from those of some
RECURSIVE ReachFrom(_, _)
ReachFrom(some, all) ==
    LET more == some \cup {t \in all : \E s \in some : Linked(s, t)}
    IN  IF more = some THEN some ELSE ReachFrom(more, all)

TransparentTriangles ==
    chunks_exact(
        SelectSeq(data, LAMBDA vertex : IsTransparent(vertex, value.texture_transparency)), 3)

TrianglesOf(submesh) == chunks_exact(submesh.native_vertices, 3)

Occurrences(t, s) == Cardinality({i \in 1..Len(s) : s[i] = t})

SubmeshesOf(t) ==
    {i \in 2..Len(result.value) : Occurrences(t, TrianglesOf(result.value[i])) > 0}

RECURSIVE VertexCount(_)
VertexCount(submeshes) ==
    IF submeshes = <<>>
    THEN 0
    ELSE Len(submeshes[1].native_vertices) + VertexCount(Tail(submeshes))

\* C25: split_disconnected_meshes returns the opaque vertices as submesh 0,
\* not transparent, followed by transparent submeshes that partition the
\* transparent triangles into connected components: every transparent
\* triangle is in exactly one submesh, two triangles are in the same submesh
\* exactly when a chain of triangles sharing a vertex (positions closer than
\* 1.0 on every axis) links them, and the vertex counts of the submeshes add
\* up to the input's when the transparent vertex count is a multiple of 3.
C25_SplitIntoComponents ==
    pc = "Split" =>
        LET submeshes == result.value
            triangles == {TransparentTriangles[i] : i \in 1..Len(TransparentTriangles)}
        IN  /\ Len(submeshes) >= 1
            /\ submeshes[1] =
                  SubMesh(FALSE, SelectSeq(data, LAMBDA vertex :
                                      ~IsTransparent(vertex, value.texture_transparency)))
            /\ \A i \in 2..Len(submeshes) :
                  /\ submeshes[i].transparent
                  /\ Len(submeshes[i].native_vertices) > 0
                  /\ Len(submeshes[i].native_vertices) % 3 = 0
                  /\ \A k \in 1..Len(TrianglesOf(submeshes[i])) :
                        TrianglesOf(submeshes[i])[k] \in triangles
            /\ \A t \in triangles :
                  /\ Cardinality(SubmeshesOf(t)) = 1
                  /\ \A i \in SubmeshesOf(t) :
                        Occurrences(t, TrianglesOf(submeshes[i])) = Occurrences(t, TransparentTriangles)
            /\ \A t1, t2 \in triangles :
                  (SubmeshesOf(t1) = SubmeshesOf(t2)) <=> (t2 \in ReachFrom({t1}, triangles))
            /\ (Len(TransparentTriangles) * 3 + Len(submeshes[1].native_vertices) = Len(data))
                  => VertexCount(submeshes) = Len(data)

\* four transparent triangles, the first with the three others as neighbours,
\* collected into one submesh in an order that is neither that of the input
\* nor its reverse: the two sides of a face, then the face before and the
\* face after, which share no vertex
C25_Witness ==
    /\ pc = "Split"
    /\ Len(TransparentTriangles) = 4
    /\ ~Linked(TransparentTriangles[3], TransparentTriangles[4])
    /\ Len(result.value) = 2
    /\ TrianglesOf(result.value[2]) =
          << TransparentTriangles[1], TransparentTriangles[3],
             TransparentTriangles[2], TransparentTriangles[4] >>

(***************************************************************************)
(* SpecDispatch: a 16-bit tag arrives and every declared packet compares   *)
(* it with its header.                                                     *)
(***************************************************************************)
\* the declared tags, their neighbours, and the ends of the 16-bit range
TagSample ==
    {0, 1, 65535} \cup UNION {{HeaderOf(t) - 1, HeaderOf(t), HeaderOf(t) + 1} :
                                 t \in DOMAIN HeaderTable}

InitDispatch ==
    /\ build \in Builds
    /\ packet = "Packet"
    /\ offset = 0
    /\ pc = "Matching"
    /\ value = 0
    /\ result = NoResult
    /\ \E tag \in TagSample : data = ToLE(tag, 2)

\* the header comparison of packet_from_bytes, made by every packet that has
\* it: those deriving IncomingPacket, and UnknownPacket
MatchHeader ==
    /\ pc = "Matching"
    /\ packet = "Packet"
    /\ value' = FromLE(SubSeq(data, 1, 2))
    /\ result' = Ok({t \in {n \in DOMAIN HeaderTable : HeaderTable[n].incoming}
                            \cup {"UnknownPacket"} : HeaderOf(t) = value'}, 2)
    /\ offset' = 2
    /\ pc' = "Matched"
    /\ UNCHANGED <<build, data, packet>>

NextDispatch == MatchHeader

SpecDispatch == InitDispatch /\ [][NextDispatch]_vars

\* C26: the tags declared with #[header(...)] are pairwise distinct and none
\* is 0, the tag of UnknownPacket, so that a 16-bit tag is the header of at
\* most one declared packet and selects at most one packet.
C26_TagsDistinct ==
    pc = "Matched" =>
        /\ Cardinality(result.value) <= 1
        /\ Cardinality({t \in DOMAIN HeaderTable : HeaderOf(t) = value}) <= 1
        /\ value = UnknownPacket.header =>
              /\ result.value = {"UnknownPacket"}
              /\ \A t \in DOMAIN HeaderTable : HeaderOf(t) # value
        /\ \A t \in DOMAIN HeaderTable :
              (HeaderTable[t].incoming /\ HeaderTable[t].header = value) <=> (result.value = {t})
        /\ \A t \in DOMAIN Packets \ {"UnknownPacket"} :
              Packets[t].header = HeaderTable[t].header

\* the tag 0x0B39, whose low byte is also that of 0x0A39 and 0x0139, selects
\* EquippableItemListPacket only
C26_Witness ==
    /\ pc = "Matched"
    /\ value = 2873
    /\ result.value = {"EquippableItemListPacket"}

(***************************************************************************)
(* SpecLogin: the bytes of the login scenario are received, and the login  *)
(* request they are said to hold is encoded.  LoginServerLoginPacket       *)
(* derives OutgoingPacket only, so the bytes meet the packet_from_bytes of *)
(* the incoming packets and the request meets packet_to_bytes.             *)
(***************************************************************************)
\* texts of a name or a password, and the same with zero bytes inside
LoginTexts ==
    Texts \cup UNION {[1..n -> {66}] : n \in 1..MaxText} \cup {[i \in 1..24 |-> 67]}

\* a text in its 24 bytes
Padded(text) == text \o [i \in 1..(24 - Len(text)) |-> 0]

\* the bytes of the scenario: the tag, the two strings, five zero bytes
LoginBytes(name, password) ==
    <<100, 0>> \o Padded(name) \o Padded(password) \o <<0, 0, 0, 0, 0>>

\* the login request the scenario's bytes are said to hold
LoginRequest(d) ==
    ("version" :> <<0, 0, 0, 0>>)
    @@ ("name" :> TrimPadding(SubSeq(d, 3, 26)))
    @@ ("password" :> TrimPadding(SubSeq(d, 27, 50)))
    @@ ("client_type" :> 0)

InitLogin ==
    /\ build \in Builds
    /\ packet = "Packet"
    /\ offset = 0
    /\ pc = "Matching"
    /\ value = 0
    /\ result = NoResult
    /\ \E name \in LoginTexts, password \in LoginTexts : data = LoginBytes(name, password)

\* packet_to_bytes of the login request
LoginPacketToBytes ==
    /\ pc = "Matched"
    /\ Len(data) = 55
    /\ result' = packet_to_bytes("LoginServerLoginPacket", LoginRequest(data))
    /\ pc' = IF result'.kind = "Ok" THEN "Reencoded" ELSE "ReencodeFailed"
    /\ UNCHANGED <<build, data, offset, packet, value>>

NextLogin == MatchHeader \/ LoginPacketToBytes

SpecLogin == InitLogin /\ [][NextLogin]_vars

\* C14: the bytes [0x64, 0x00, 24 bytes name, 24 bytes password, five zero
\* bytes] decode to a login request whose name and password are the texts
\* without their padding, and encoding that value gives the same bytes again.
C14_LoginScenario ==
    /\ pc = "Matched" => "LoginServerLoginPacket" \in result.value
    /\ pc # "ReencodeFailed"
    /\ pc = "Reencoded" => result.value = data

(***************************************************************************)
(* SpecLoad: ModelLoader::load and the calls it makes to itself.  The      *)
(* game files do not change while a model is loaded.  Of a model the parts *)
(* that load reads are kept: the root node name, the transparency the      *)
(* texture atlas reports for each texture name, and the nodes; <<>> is the *)
(* None of an Option.                                                      *)
(***************************************************************************)
MaxCalls == 4

FALLBACK_MODEL_FILE == "missing.rsm"

ModelFiles == {"tree.rsm", "house.rsm", FALLBACK_MODEL_FILE}

\* InternalVersion::equals_or_above
equals_or_above(version, major, minor) ==
    version.major > major \/ (version.major = major /\ version.minor >= minor)

\* process_node_mesh and the flat_map over the child nodes: the number of
\* vertices gathered, or the panic.  A call deeper than there are nodes is on
\* a cycle of parents, which the code follows until the stack is used up.
RECURSIVE process_node_mesh(_, _, _, _, _)
RECURSIVE process_children(_, _, _, _, _)
process_children(children, nodes, model_texture_mapping, reverse_order, depth) ==
    IF children = <<>>
    THEN Ok(0, 0)
    ELSE LET first == process_node_mesh(children[1], nodes, model_texture_mapping,
                                        reverse_order, depth)
         IN  IF first.kind # "Ok" THEN first
             ELSE LET rest == process_children(Tail(children), nodes, model_texture_mapping,
                                               reverse_order, depth)
                  IN  IF rest.kind # "Ok" THEN rest
                      ELSE Ok(first.value + rest.value, 0)

process_node_mesh(current_node, nodes, model_texture_mapping, reverse_order, depth) ==
    IF depth > Len(nodes)
    THEN Panic("stack overflow", 0)
    ELSE IF \/ current_node.translation1 = <<>>
            \/ current_node.scale = <<>>
            \/ current_node.rotation_axis = <<>>
            \/ current_node.rotation_angle = <<>>
    THEN Panic("called Option::unwrap() on a None value", 0)
    ELSE LET main_matrix ==
                 << <<1, 0, 0, current_node.translation1[1]>>,
                    <<0, 1, 0, current_node.translation1[2]>>,
                    <<0, 0, 1, current_node.translation1[3]>> >>
             child_nodes ==
                 process_children(
                     SelectSeq(nodes, LAMBDA node :
                         /\ node.parent_node_name = current_node.node_name
                         /\ node.parent_node_name # node.node_name),
                     nodes, model_texture_mapping, reverse_order, depth + 1)
             texture_indices == current_node.texture_indices
         IN  IF child_nodes.kind # "Ok" THEN child_nodes
             ELSE IF \E i \in 1..Len(texture_indices) :
                        texture_indices[i] >= Len(model_texture_mapping)
             THEN Panic("index out of bounds", 0)
             ELSE LET texture_transparency ==
                          [i \in 1..Len(texture_indices) |->
                              model_texture_mapping[texture_indices[i] + 1]]
                      sub_meshes ==
                          CHOOSE made \in make_vertices(current_node, main_matrix, reverse_order,
                                                        texture_transparency) : TRUE
                  IN  IF sub_meshes.kind # "Ok" THEN sub_meshes
                      ELSE IF \E i \in 1..Len(current_node.faces) :
                                 current_node.faces[i].texture_index >= Len(texture_indices)
                      THEN Panic("index out of bounds", 0)
                      ELSE Ok(child_nodes.value + VertexCount(sub_meshes.value), 0)

\* one call of load: the call of load with the fallback file, or the end of
\* the call with a model or a panic
load(game_files, model_file, reverse_order) ==
    LET file == game_files[model_file]
        retry == [kind |-> "Retry", model_file |-> FALLBACK_MODEL_FILE, error |-> "none"]
        model_data == file.model_data
        named == {i \in 1..Len(model_data.nodes) :
                     <<model_data.nodes[i].node_name>> = model_data.root_node_name}
    IN  IF file.kind = "unreadable" THEN retry
        ELSE IF file.kind = "unparsable" THEN retry
        ELSE IF equals_or_above(file, 2, 2) THEN retry
        ELSE IF model_data.root_node_name = <<>>
        THEN [kind |-> "Panic", model_file |-> model_file,
              error |-> "called Option::unwrap() on a None value"]
        ELSE IF named = {}
        THEN [kind |-> "Panic", model_file |-> model_file, error |-> "failed to find main node"]
        ELSE LET root_node == model_data.nodes[CHOOSE i \in named : \A j \in named : i <= j]
                 root_nodes == process_node_mesh(root_node, model_data.nodes,
                                                 model_data.textures, reverse_order, 1)
             IN  [kind |-> root_nodes.kind, model_file |-> model_file,
                  error |-> root_nodes.error]

\* a node with two faces and a child
MainNode ==
    [node_name |-> "main", parent_node_name |-> "", translation1 |-> <<1, 0, 0>>,
     scale |-> <<1, 1, 1>>, rotation_axis |-> <<0, 1, 0>>, rotation_angle |-> <<0>>,
     texture_indices |-> <<0, 1>>,
     faces |-> << Face(<< <<0, 0, 0>>, <<2, 0, 0>>, <<0, 2, 0>> >>, 1, 0),
                  Face(<< <<3, 0, 0>>, <<5, 0, 0>>, <<3, 2, 0>> >>, 0, 1) >>]

LeafNode ==
    [MainNode EXCEPT !.node_name = "leaf", !.parent_node_name = "main"]

ModelOf(root_node_name, nodes) ==
    [root_node_name |-> root_node_name, textures |-> <<FALSE, TRUE>>, nodes |-> nodes]

SoundModel == ModelOf(<<"main">>, <<MainNode, LeafNode>>)

\* models that load does not get through
DefectiveModels ==
    { ModelOf(<<>>, <<MainNode>>),
      ModelOf(<<"other">>, <<MainNode>>),
      ModelOf(<<"main">>, <<[MainNode EXCEPT !.scale = <<-1, 1, 1>>]>>),
      ModelOf(<<"main">>, <<MainNode, [LeafNode EXCEPT !.scale = <<>>]>>),
      ModelOf(<<"main">>, <<MainNode, [LeafNode EXCEPT !.rotation_angle = <<>>]>>),
      ModelOf(<<"main">>, <<[MainNode EXCEPT !.texture_indices = <<0, 2>>]>>),
      ModelOf(<<"main">>, <<[MainNode EXCEPT !.texture_indices = <<1>>]>>),
      ModelOf(<<"main">>, <<[MainNode EXCEPT !.parent_node_name = "leaf"], LeafNode>>) }

\* what the game files hold for a model file: nothing, bytes that are no
\* model, or a model of some version
FileStates ==
    {[kind |-> k, major |-> 0, minor |-> 0, model_data |-> ModelOf(<<>>, <<>>)] :
        k \in {"unreadable", "unparsable"}}
    \cup {[kind |-> "model", major |-> v[1], minor |-> v[2], model_data |-> SoundModel] :
            v \in {<<1, 5>>, <<2, 1>>, <<2, 2>>, <<3, 0>>}}
    \cup {[kind |-> "model", major |-> 1, minor |-> 5, model_data |-> m] :
            m \in DefectiveModels \cup {ModelOf(<<"main">>, <<[MainNode EXCEPT !.parent_node_name = "main"]>>)}}

InitLoad ==
    /\ build \in Builds
    /\ data \in [ModelFiles -> FileStates]
    /\ packet \in ModelFiles
    /\ value \in [chain : {<<packet>>}, reverse_order : BOOLEAN]
    /\ offset = 0
    /\ pc = "Loading"
    /\ result = NoResult

\* load ends: it returns the model it built, or panics while building it
LoadModel ==
    /\ pc = "Loading"
    /\ LET ended == load(data, packet, value.reverse_order)
       IN  /\ ended.kind # "Retry"
           /\ result' = IF ended.kind = "Ok" THEN Ok(packet, 0) ELSE Panic(ended.error, 0)
           /\ pc' = IF ended.kind = "Ok" THEN "Loaded"
                    ELSE IF ended.error = "stack overflow" THEN "StackExhausted"
                    ELSE "LoadPanicked"
    /\ UNCHANGED <<build, data, offset, packet, value>>

\* load calls itself with the fallback file
LoadFallback ==
    /\ pc = "Loading"
    /\ load(data, packet, value.reverse_order).kind = "Retry"
    /\ Len(value.chain) < MaxCalls
    /\ packet' = load(data, packet, value.reverse_order).model_file
    /\ value' = [value EXCEPT !.chain = Append(@, packet')]
    /\ UNCHANGED <<build, data, offset, pc, result>>

\* the calls go on: the stack runs out, or, where the build turned the call
\* in tail position into a jump, the loop never ends
LoadForever ==
    /\ pc = "Loading"
    /\ load(data, packet, value.reverse_order).kind = "Retry"
    /\ Len(value.chain) = MaxCalls
    /\ \E outcome \in (IF build = "debug" THEN {"StackExhausted"}
                       ELSE {"StackExhausted", "Looping"}) :
          /\ pc' = outcome
          /\ result' = Panic(outcome, 0)
    /\ UNCHANGED <<build, data, offset, packet, value>>

NextLoad == LoadModel \/ LoadFallback \/ LoadForever

SpecLoad == InitLoad /\ [][NextLoad]_vars

\* C29: load terminates for every model file and every state of the game
\* files: a file that is unreadable, unparsable or of version 2.2 or above is
\* replaced by the fallback file, and the chain of calls is finite also when
\* the fallback file is such a file: no call repeats a call still in
\* progress, and the calls neither use up the stack nor loop.
C29_LoadTerminates ==
    /\ pc \in {"Loading", "Loaded", "LoadPanicked"}
    /\ \A i, j \in 1..Len(value.chain) : i # j => value.chain[i] # value.chain[j]

(***************************************************************************)
(* SpecNumber: a MutableNumberValue<f32> over a value that its owner       *)
(* writes between the updates of the interface.  A number is counted in    *)
(* halves, which "{:.1}" prints without rounding; nan marks a NaN.         *)
(***************************************************************************)
MaxSteps == 4

Number(num) == [nan |-> FALSE, num |-> num]

NaN == [nan |-> TRUE, num |-> 0]

Numbers == {Number(n) : n \in -2..3} \cup {NaN}

\* PartialEq::ne on f32: a NaN differs from every value, itself included
ne(a, b) == a.nan \/ b.nan \/ a.num # b.num

\* format!("{:.1}", v)
format_1(v) ==
    IF v.nan
    THEN [text |-> "NaN", negative |-> FALSE, whole |-> 0, tenth |-> 0]
    ELSE [text |-> "number", negative |-> v.num < 0,
          whole |-> Abs(v.num) \div 2, tenth |-> 5 * (Abs(v.num) % 2)]

\* MutableNumberValue::new: the caches are filled from the pointed-to value
MutableNumberValue_new(inner) ==
    [cached_inner |-> inner, cached_values |-> format_1(inner)]

\* Element::update: the element afterwards and the value returned
update(self, current_value) ==
    IF ne(self.cached_inner, current_value)
    THEN [self |-> [cached_inner |-> current_value, cached_values |-> format_1(current_value)],
          returned |-> "Some(RENDER_WINDOW)"]
    ELSE [self |-> self, returned |-> "None"]

InitNumber ==
    /\ build \in Builds
    /\ packet = "MutableNumberValue"
    /\ value \in Numbers
    /\ data = MutableNumberValue_new(value)
    /\ offset = 0
    /\ pc = "Constructed"
    /\ result = NoResult

\* the owner of the value writes it
WriteValue ==
    /\ packet = "MutableNumberValue"
    /\ offset < MaxSteps
    /\ \E written \in Numbers : value' = written
    /\ offset' = offset + 1
    /\ pc' = "Written"
    /\ UNCHANGED <<build, data, packet, result>>

\* the interface updates the element
UpdateElement ==
    /\ packet = "MutableNumberValue"
    /\ offset < MaxSteps
    /\ data' = update(data, value).self
    /\ result' = Ok(update(data, value).returned, 0)
    /\ offset' = offset + 1
    /\ pc' = IF pc \in {"Updated", "UpdatedAgain"} THEN "UpdatedAgain" ELSE "Updated"
    /\ UNCHANGED <<build, packet, value>>

NextNumber == WriteValue \/ UpdateElement

SpecNumber == InitNumber /\ [][NextNumber]_vars

\* C30: after every update cached_inner is the pointed-to value, and an update
\* that follows another update with no write to the value in between finds
\* nothing changed and returns None.
C30_UpdateSettles ==
    /\ pc \in {"Updated", "UpdatedAgain"} => data.cached_inner = value
    /\ pc = "UpdatedAgain" => result.value = "None"

====
